---- MODULE Spec2Model ----
\* Turn orchestration core of codex-rs: the Chat Completions wire assembler
\* (codex-api/src/requests/chat.rs), the tool orchestrator
\* (core/src/tools/orchestrator.rs), the tool router (core/src/tools/router.rs)
\* and the stream reducer (core/src/stream_events_utils.rs).
EXTENDS Integers, Sequences, FiniteSets, TLC

VARIABLES
    \* ---- wire assembler (ChatRequestBuilder::build) ----
    input,      \* self.input: the history handed to the builder
    bpc,        \* "new" before build has run, "built" after it returned
    loop,       \* the main loop's locals after each iteration (loop[k]: after item k)
    reasoning_content, \* self.reasoning_content: Option<String> given to the builder
    messages,   \* the messages vector when the main loop ends
    outcome,    \* what build returned: [status |-> "Ok" | "BadRequest" | "Hang", ...]
    conversation_id, \* self.conversation_id: Option<String>
    session_source,  \* self.session_source: Option<SessionSource>
    headers     \* the headers of the ChatRequest build returned (None without a request)

bvars == <<input, bpc, loop, reasoning_content, messages, outcome,
           conversation_id, session_source, headers>>

VARIABLES
    \* ---- tool orchestrator (ToolOrchestrator::run), one call ----
    requirement,       \* the ExecApprovalRequirement of the request
    approval_policy,   \* the AskForApproval argument
    tool,              \* what the ToolRuntime answers: escalate_on_failure, sandbox override
    turn_ctx,          \* the platform sandbox select_initial picks, codex_linux_sandbox_exe
    already_approved,  \* the local of the same name
    opc,               \* where run stands: at its start, at one of its awaits, or returned
    events,            \* prompts, telemetry, attempts and their results, in the order they happen
    result             \* what run returned (None until it returns)

ovars == <<requirement, approval_policy, tool, turn_ctx, already_approved, opc,
           events, result>>

VARIABLES
    \* ---- stream reducer (handle_output_item_done), one turn ----
    stream,       \* the completed items the model stream still delivers
    history,      \* the session's conversation history
    rpc,          \* where handle_output_item_done stands: idle, or at one of its awaits
    current,      \* the item being handled (None when idle)
    classified,   \* what build_tool_call returned for it
    previously_active_item, \* the argument of the same name, as a flag
    futures,      \* the tool futures created so far, each with its state
    lifecycle,    \* turn_item_started / turn_item_completed events, tool_failed logs
    returned,     \* what each call of handle_output_item_done returned
    session_reasoning, \* what set_reasoning_content stored
    cancelled     \* the turn's cancellation token

rvars == <<stream, history, rpc, current, classified, previously_active_item, futures, lifecycle,
           returned, session_reasoning, cancelled>>

VARIABLES
    \* ---- tool router (ToolRouter::dispatch_tool_call), one call ----
    dispatch_pc,     \* where dispatch_tool_call stands: start, awaiting the registry, returned
    dispatch_call,   \* the ToolCall argument
    handler_result,  \* what registry.dispatch returned (None until it returns)
    dispatch_result  \* what dispatch_tool_call returned (None until it returns)

dvars == <<dispatch_pc, dispatch_call, handler_result, dispatch_result>>

vars == <<bvars, ovars, rvars, dvars>>

\* ------------------------------------------------------------------ values

\* Option<T>: None is the empty sequence, Some(x) the one-element sequence.
None == <<>>
Some(x) == <<x>>
IsSome(o) == o # <<>>
Unwrap(o) == o[1]

\* Strings that the code measures, trims or concatenates are sequences of
\* characters; identifiers and role names are atomic strings.
Whitespace == {" ", "\n", "\t"}
TrimIsEmpty(text) == \A i \in 1..Len(text) : text[i] \in Whitespace

\* serde_json::Value: a string, null or an array, kept apart by the field name.
JStr(s) == [str |-> s]
JNull == [null |-> TRUE]
JArr(a) == [arr |-> a]

\* ------------------------------------------------------------------ history items

\* ContentItem
InputText(t) == [type |-> "InputText", text |-> t]
OutputText(t) == [type |-> "OutputText", text |-> t]
InputImage(u) == [type |-> "InputImage", image_url |-> u]

\* ResponseItem
MessageWithReasoning(role, content, id, tool_calls, reasoning) ==
    [type |-> "Message", role |-> role, content |-> content, id |-> id,
     tool_calls |-> tool_calls, reasoning_content |-> reasoning]
Message(role, content, id, tool_calls) ==
    MessageWithReasoning(role, content, id, tool_calls, <<>>)
FunctionCall(name, call_id) ==
    [type |-> "FunctionCall", name |-> name, arguments |-> "{}", call_id |-> call_id]
LocalShellCall(id, call_id) ==
    [type |-> "LocalShellCall", id |-> id, call_id |-> call_id,
     status |-> "completed", action |-> "exec"]
\* output: FunctionCallOutputPayload { content, content_items, success }
FunctionCallOutput(call_id, content, content_items) ==
    [type |-> "FunctionCallOutput", call_id |-> call_id,
     output |-> [content |-> content, content_items |-> content_items]]
CustomToolCall(id, call_id, name) ==
    [type |-> "CustomToolCall", id |-> id, call_id |-> call_id, name |-> name,
     input |-> "{}"]
CustomToolCallOutput(call_id, output) ==
    [type |-> "CustomToolCallOutput", call_id |-> call_id, output |-> [content |-> output]]
Reasoning(content) == [type |-> "Reasoning", content |-> content]
Inert(kind) == [type |-> kind]

\* ------------------------------------------------------------------ build: first passes

\* chat.rs 68-83: the role of the last item that counts as emitted.
RECURSIVE last_emitted_role_upto(_, _)
last_emitted_role_upto(in, k) ==
    IF k = 0 THEN None
    ELSE LET item == in[k] IN
         IF item.type = "Message" THEN Some(item.role)
         ELSE IF item.type \in {"FunctionCall", "LocalShellCall"} THEN Some("assistant")
         ELSE IF item.type = "FunctionCallOutput" THEN Some("tool")
         ELSE last_emitted_role_upto(in, k - 1)

last_emitted_role(in) == last_emitted_role_upto(in, Len(in))

\* chat.rs 85-92: index of the last Message with role user (1-based here).
last_user_index(in) ==
    LET us == {i \in 1..Len(in) : in[i].type = "Message" /\ in[i].role = "user"} IN
    IF us = {} THEN None ELSE Some(CHOOSE i \in us : \A j \in us : j <= i)

\* chat.rs 107-115: the text of a Reasoning item, its entries concatenated.
RECURSIVE ReasoningText(_)
ReasoningText(entries) ==
    IF entries = <<>> THEN <<>> ELSE Head(entries).text \o ReasoningText(Tail(entries))

\* HashMap entry(k).and_modify(push_str).or_insert(text)
PushOrInsert(map, k, text) ==
    IF k \in DOMAIN map THEN [map EXCEPT ![k] = @ \o text]
    ELSE [i \in DOMAIN map \cup {k} |-> IF i = k THEN text ELSE map[i]]

\* chat.rs 95-151: one iteration of the anchoring loop, for the item at idx.
AnchorStep(in, map, idx) ==
    LET item == in[idx]
        u == last_user_index(in)
    IN
    IF IsSome(u) /\ idx <= Unwrap(u) THEN map
    ELSE IF ~(item.type = "Reasoning" /\ IsSome(item.content)) THEN map
    ELSE LET text == ReasoningText(Unwrap(item.content)) IN
         IF TrimIsEmpty(text) THEN map
         ELSE IF idx > 1 /\ in[idx - 1].type = "Message" /\ in[idx - 1].role = "assistant"
              THEN PushOrInsert(map, idx - 1, text)
         ELSE IF idx + 1 <= Len(in)
                 /\ \/ in[idx + 1].type \in {"FunctionCall", "LocalShellCall"}
                    \/ in[idx + 1].type = "Message" /\ in[idx + 1].role = "assistant"
              THEN PushOrInsert(map, idx + 1, text)
         ELSE map

RECURSIVE AnchorLoop(_, _)
AnchorLoop(in, k) ==
    IF k = 0 THEN <<>> ELSE AnchorStep(in, AnchorLoop(in, k - 1), k)

\* chat.rs 67, 94-152: reasoning_by_anchor_index.
reasoning_by_anchor_index(in) ==
    IF last_emitted_role(in) = Some("user") THEN <<>> ELSE AnchorLoop(in, Len(in))

\* ------------------------------------------------------------------ build: main loop

\* chat.rs 193-207 (and again 283-297): text, typed parts and saw_image of a content list.
RECURSIVE ContentText(_)
ContentText(content) ==
    IF content = <<>> THEN <<>>
    ELSE IF Head(content).type \in {"InputText", "OutputText"}
         THEN Head(content).text \o ContentText(Tail(content))
         ELSE ContentText(Tail(content))

ContentParts(content) ==
    [i \in 1..Len(content) |->
        IF content[i].type \in {"InputText", "OutputText"}
        THEN [type |-> "text", text |-> content[i].text]
        ELSE [type |-> "image_url", url |-> content[i].image_url]]

SawImage(content) == \E i \in 1..Len(content) : content[i].type = "InputImage"

\* The emitted JSON objects. A key that the code does not insert is absent.
SystemMsg == [role |-> "system", content |-> JStr(<<"i">>)]
ToolMsg(call_id, content_value) ==
    [role |-> "tool", tool_call_id |-> call_id, content |-> content_value]
PlainMsg(role, content_value) == [role |-> role, content |-> content_value]

\* One entry of a tool_calls array (chat.rs 333-340, 360-365, 421-428).
FunctionToolCall(call_id, name, arguments) ==
    [id |-> call_id, type |-> "function",
     function |-> [name |-> name, arguments |-> arguments]]
LocalShellToolCall(call_id, status, action) ==
    [id |-> call_id, type |-> "local_shell_call", status |-> status, action |-> action]
CustomToolCallJson(call_id, name, in) ==
    [id |-> call_id, type |-> "custom", custom |-> [name |-> name, input |-> in]]

HasToolCalls(msg) == "tool_calls" \in DOMAIN msg

\* Mutant: every call gets an assistant message of its own.
push_tool_call_message_ungrouped(msgs, tool_call, reasoning) ==
    Append(msgs, [role |-> "assistant", content |-> JNull,
                  tool_calls |-> <<tool_call>>,
                  reasoning_content |->
                      IF IsSome(reasoning) THEN Unwrap(reasoning) ELSE <<>>])

\* Mutant: the reasoning of a grouped call is appended without a separator.
push_tool_call_message_unseparated(msgs, tool_call, reasoning) ==
    LET n == Len(msgs)
        last == msgs[n]
    IN
    IF n > 0 /\ last.role = "assistant" /\ last.content = JNull /\ HasToolCalls(last)
    THEN [msgs EXCEPT ![n] =
              [last EXCEPT !.tool_calls = Append(@, tool_call),
                           !.reasoning_content =
                               @ \o (IF IsSome(reasoning) THEN Unwrap(reasoning) ELSE <<>>)]]
    ELSE Append(msgs, [role |-> "assistant", content |-> JNull,
                       tool_calls |-> <<tool_call>>,
                       reasoning_content |->
                           IF IsSome(reasoning) THEN Unwrap(reasoning) ELSE <<>>])

\* chat.rs 595-644
push_tool_call_message(msgs, tool_call, reasoning) ==
    LET n == Len(msgs)
        last == msgs[n]
    IN
    IF n > 0 /\ last.role = "assistant" /\ last.content = JNull /\ HasToolCalls(last)
    THEN LET existing == last.reasoning_content
             joined == IF IsSome(reasoning)
                       THEN (IF existing # <<>> THEN existing \o <<"\n">> ELSE existing)
                            \o Unwrap(reasoning)
                       ELSE existing
         IN [msgs EXCEPT ![n] = [last EXCEPT !.tool_calls = Append(@, tool_call),
                                             !.reasoning_content = joined]]
    ELSE Append(msgs, [role |-> "assistant", content |-> JNull,
                       tool_calls |-> <<tool_call>>,
                       reasoning_content |->
                           IF IsSome(reasoning) THEN Unwrap(reasoning) ELSE <<>>])

\* chat.rs 344-349: after a push the last message is the wrapper, so the index is set.
TrackWrapper(msgs, old, idx) ==
    IF Len(msgs) > 0 /\ msgs[Len(msgs)].role = "assistant" /\ HasToolCalls(msgs[Len(msgs)])
    THEN Some(idx) ELSE old

KeptBesidesSystem(msg) ==
    msg.role # "system" /\ ~(msg.role = "assistant" /\ HasToolCalls(msg))

\* Mutant: the eviction drops the system message too.
RetainDroppingSystem(msgs) == SelectSeq(msgs, KeptBesidesSystem)

\* Vec::retain with the predicate of chat.rs 271-274
RECURSIVE RetainNotToolCallAssistant(_)
RetainNotToolCallAssistant(msgs) ==
    IF msgs = <<>> THEN <<>>
    ELSE IF Head(msgs).role = "assistant" /\ HasToolCalls(Head(msgs))
         THEN RetainNotToolCallAssistant(Tail(msgs))
         ELSE <<Head(msgs)>> \o RetainNotToolCallAssistant(Tail(msgs))

AnchoredReasoning(anchors, idx) ==
    IF idx \in DOMAIN anchors THEN Some(anchors[idx]) ELSE None

\* The locals of the main loop (chat.rs 63, 154-158).
LoopInit ==
    [messages |-> <<SystemMsg>>,
     last_assistant_text |-> None,
     pending_tool_call_ids |-> {},
     last_assistant_with_tool_calls_index |-> None]

\* Mutant: without a given reasoning_content the field is left out.
AssistantMessageBare(st, item, given) ==
    LET base == [role |-> "assistant", content |-> JStr(ContentText(item.content))]
        reasoned == [role |-> "assistant", content |-> JStr(ContentText(item.content)),
                     reasoning_content |-> IF IsSome(given) THEN Unwrap(given) ELSE <<>>]
    IN [st EXCEPT !.messages = Append(@, IF IsSome(given) THEN reasoned ELSE base)]

\* chat.rs 232-262: an assistant Message is pushed and the iteration ends.
AssistantMessage(st, item, given) ==
    LET base == [role |-> "assistant", content |-> JStr(ContentText(item.content)),
                 reasoning_content |-> IF IsSome(given) THEN Unwrap(given) ELSE <<>>]
        message == IF IsSome(item.tool_calls) /\ Unwrap(item.tool_calls) # <<>>
                   THEN [role |-> base.role, content |-> base.content,
                         reasoning_content |-> base.reasoning_content,
                         tool_calls |-> Unwrap(item.tool_calls)]
                   ELSE base
    IN [st EXCEPT !.messages = Append(@, message)]

\* chat.rs 264-277: eviction of assistant messages that carry tool_calls.
EvictionApplies(st, role) ==
    /\ role \in {"user", "assistant"}
    /\ st.pending_tool_call_ids # {}
    /\ IsSome(st.last_assistant_with_tool_calls_index)

\* Mutant: the pending calls are forgotten but their assistant message is kept.
EvictKeepsMessages(st, role) ==
    IF EvictionApplies(st, role)
    THEN [st EXCEPT !.pending_tool_call_ids = {},
                    !.last_assistant_with_tool_calls_index = <<>>]
    ELSE st

Evict(st, role) ==
    IF EvictionApplies(st, role)
    THEN [st EXCEPT !.messages = RetainNotToolCallAssistant(@),
                    !.pending_tool_call_ids = {},
                    !.last_assistant_with_tool_calls_index = None]
    ELSE st

\* chat.rs 279-323: the tail of the Message arm (reached by no assistant Message,
\* which left at 261).
MessageTail(st0, item, role, anchors, idx) ==
    LET st == Evict(st0, role)
        text == ContentText(item.content)
        content_value == IF role = "assistant" THEN JStr(text)
                         ELSE IF SawImage(item.content) THEN JArr(ContentParts(item.content))
                         ELSE JStr(text)
    IN
    IF role = "assistant" /\ st.last_assistant_text = Some(text) THEN st
    ELSE LET st1 == IF role = "assistant"
                    THEN [st EXCEPT !.last_assistant_text = Some(text)] ELSE st
             msg == IF role = "assistant" /\ idx \in DOMAIN anchors
                    THEN [role |-> role, content |-> content_value,
                          reasoning |-> anchors[idx]]
                    ELSE PlainMsg(role, content_value)
         IN [st1 EXCEPT !.messages = Append(@, msg)]

\* Mutant: the developer role is emitted as it is.
EmittedRoleKept(role) == role

\* chat.rs 181-186: developer is rewritten to user.
EmittedRole(role) == IF role = "developer" THEN "user" ELSE role

\* chat.rs 174-324: the Message arm.
ProcessMessage(st, item, given, anchors, idx) ==
    LET role == EmittedRole(item.role) IN
    IF role = "tool" /\ IsSome(item.id)
    THEN [st EXCEPT !.messages =
              Append(@, ToolMsg(Unwrap(item.id), JStr(ContentText(item.content))))]
    ELSE IF role = "assistant" THEN AssistantMessage(st, item, given)
    ELSE MessageTail(st, item, role, anchors, idx)

\* chat.rs 325-375, 411-439: the three tool-call arms.
ProcessToolCall(st, tracked_id, tool_call, anchors, idx) ==
    LET msgs == push_tool_call_message(st.messages, tool_call,
                                       AnchoredReasoning(anchors, idx))
    IN [st EXCEPT !.messages = msgs,
                  !.pending_tool_call_ids = @ \cup {tracked_id},
                  !.last_assistant_with_tool_calls_index = TrackWrapper(msgs, @, idx)]

\* Mutant: a LocalShellCall without id is emitted under a placeholder id.
LocalShellWireIdPlaceholder(item) ==
    IF IsSome(item.id) THEN Unwrap(item.id) ELSE "local_shell"

\* chat.rs 358: id.clone().unwrap_or_default()
LocalShellWireId(item) == IF IsSome(item.id) THEN Unwrap(item.id) ELSE ""
\* chat.rs 419: id.clone().unwrap_or_else(|| call_id.clone())
CustomWireId(item) == IF IsSome(item.id) THEN Unwrap(item.id) ELSE item.call_id

\* chat.rs 388-403
OutputContentValue(output) ==
    IF IsSome(output.content_items)
    THEN JArr(ContentParts(Unwrap(output.content_items)))
    ELSE JStr(output.content)

\* chat.rs 376-410, 440-452: the two output arms.
ProcessOutput(st, call_id, content_value) ==
    LET pending == st.pending_tool_call_ids \ {call_id} IN
    [st EXCEPT !.pending_tool_call_ids = pending,
               !.last_assistant_with_tool_calls_index = IF pending = {} THEN None ELSE @,
               !.messages = Append(@, ToolMsg(call_id, content_value))]

\* chat.rs 161-463: one iteration of the main loop. idx is 1-based.
ProcessItem(st, item, given, anchors, idx) ==
    CASE item.type = "Message" -> ProcessMessage(st, item, given, anchors, idx)
      [] item.type = "FunctionCall" ->
            ProcessToolCall(st, item.call_id,
                            FunctionToolCall(item.call_id, item.name, item.arguments),
                            anchors, idx)
      [] item.type = "LocalShellCall" ->
            ProcessToolCall(st, LocalShellWireId(item),
                            LocalShellToolCall(LocalShellWireId(item), item.status,
                                               item.action),
                            anchors, idx)
      [] item.type = "CustomToolCall" ->
            ProcessToolCall(st, item.call_id,
                            CustomToolCallJson(CustomWireId(item), item.name, item.input),
                            anchors, idx)
      [] item.type = "FunctionCallOutput" ->
            ProcessOutput(st, item.call_id, OutputContentValue(item.output))
      [] item.type = "CustomToolCallOutput" ->
            ProcessOutput(st, item.call_id, JStr(item.output.content))
      [] OTHER -> st

\* The loop's locals after each of the first k iterations.
RECURSIVE MainLoop(_, _, _, _)
MainLoop(in, given, anchors, k) ==
    IF k = 0 THEN <<>>
    ELSE LET prev == MainLoop(in, given, anchors, k - 1)
             st == IF k = 1 THEN LoopInit ELSE prev[k - 1]
         IN Append(prev, ProcessItem(st, in[k], given, anchors, k))

\* ------------------------------------------------------------------ build: validation

\* chat.rs 527-532
ExpectedCallIds(msg) == [k \in 1..Len(msg.tool_calls) |-> msg.tool_calls[k].id]

\* chat.rs 540-558: the scan from j. Returns <<found_call_ids, saw_non_tool_message>>.
RECURSIVE ScanToolMessages(_, _, _)
ScanToolMessages(msgs, j, found) ==
    IF j > Len(msgs) THEN <<found, FALSE>>
    ELSE IF msgs[j].role = "tool"
         THEN IF "tool_call_id" \in DOMAIN msgs[j]
              THEN ScanToolMessages(msgs, j + 1, found \cup {msgs[j].tool_call_id})
              ELSE ScanToolMessages(msgs, j + 1, found)
         ELSE <<found, TRUE>>

\* Mutant: the ids are checked even when the scan ran to the end of the messages.
MissingCallIdAtEnd(expected, scan) ==
    LET missing == {k \in 1..Len(expected) : expected[k] \notin scan[1]} IN
    IF missing # {}
    THEN <<expected[CHOOSE k \in missing : \A m \in missing : k <= m]>>
    ELSE <<>>

\* chat.rs 564-576: the first expected id with no tool message, if a non-tool
\* message ended the scan.
MissingCallId(expected, scan) ==
    LET missing == {k \in 1..Len(expected) : expected[k] \notin scan[1]} IN
    IF scan[2] /\ missing # {}
    THEN Some(expected[CHOOSE k \in missing : \A m \in missing : k <= m])
    ELSE None

\* chat.rs 517-593, from position i (messages[0] of the code is msgs[1] here).
\* The tool arm at 580-589 continues without advancing i: the walk never ends.
RECURSIVE ValidateFrom(_, _)
ValidateFrom(msgs, i) ==
    IF i > Len(msgs) THEN [status |-> "Ok"]
    ELSE LET msg == msgs[i] IN
         IF msg.role = "assistant" /\ HasToolCalls(msg)
         THEN LET expected == ExpectedCallIds(msg)
                  missing == MissingCallId(expected, ScanToolMessages(msgs, i + 1, {}))
              IN IF expected # <<>> /\ IsSome(missing)
                 THEN [status |-> "BadRequest", call_id |-> Unwrap(missing)]
                 ELSE ValidateFrom(msgs, i + 1)
         ELSE IF msg.role = "tool" THEN [status |-> "Hang"]
         ELSE ValidateFrom(msgs, i + 1)

\* Mutant: the walk reports success without looking at what follows a tool_calls message.
validate_accepts_everything(msgs) == [status |-> "Ok"]

validate_tool_calls_sequence(msgs) == ValidateFrom(msgs, 2)

\* Mutant: the presence of tool messages is not detected, so the walk always runs.
has_tool_messages_never(msgs) == FALSE

\* chat.rs 470-472
has_tool_messages(msgs) == \E i \in 1..Len(msgs) : msgs[i].role = "tool"

\* Mutant: the walk runs whatever the messages hold.
ValidationResultUnguarded(msgs) == validate_tool_calls_sequence(msgs)

\* chat.rs 473-477
ValidationResult(msgs) ==
    IF ~has_tool_messages(msgs) THEN validate_tool_calls_sequence(msgs)
    ELSE [status |-> "Ok"]

\* chat.rs 479-484, 510-513: the request body's messages on Ok; an error has no body.
BuildOutcome(msgs) ==
    LET v == ValidationResult(msgs) IN
    IF v.status = "Ok" THEN [status |-> "Ok", messages |-> msgs] ELSE v

\* ------------------------------------------------------------------ inputs

MaxLen == 3

TextA == <<"a">>
TextB == <<"b">>

CallIds == {"c1", "c2"}

MessageItems ==
    {Message("user", <<InputText(TextA)>>, None, None),
     Message("developer", <<InputText(TextB)>>, None, None),
     Message("assistant", <<OutputText(TextA)>>, None, None),
     Message("assistant", <<OutputText(TextB)>>, None,
             Some(<<FunctionToolCall("c1", "f", "{}")>>)),
     Message("tool", <<OutputText(TextA)>>, Some("c1"), None),
     Message("tool", <<OutputText(TextA)>>, None, None)}

ToolCallItems ==
    {FunctionCall("f", c) : c \in CallIds}
    \cup {LocalShellCall(None, None), LocalShellCall(None, Some("c2")),
          CustomToolCall(Some("x"), "c2", "g")}

OutputItems ==
    {FunctionCallOutput(c, TextA, None) : c \in CallIds \cup {""}}
    \cup {CustomToolCallOutput("c2", TextA)}

ReasoningItems ==
    {Reasoning(Some(<<[type |-> "ReasoningText", text |-> <<"r">>]>>)),
     Reasoning(Some(<<[type |-> "Text", text |-> <<" ">>]>>))}

InertItems == {Inert("Other")}

Items == MessageItems \cup ToolCallItems \cup OutputItems \cup ReasoningItems
         \cup InertItems

\* Longer histories: the scenarios of the builder's test and of the specification.
UserX == Message("user", <<InputText(<<"X">>)>>, None, None)
UserY == Message("user", <<InputText(<<"Y">>)>>, None, None)
ScenarioS1 ==
    <<Message("user", <<InputText(<<"r", "e", "a", "d">>)>>, None, None),
      FunctionCall("read_file", "call-a"), FunctionCall("read_file", "call-b"),
      FunctionCall("read_file", "call-c"),
      FunctionCallOutput("call-a", <<"A">>, None),
      FunctionCallOutput("call-b", <<"B">>, None),
      FunctionCallOutput("call-c", <<"C">>, None)>>
ScenarioS3 == <<UserX, FunctionCall("f", "c1"), UserY>>
ScenarioS4 ==
    <<UserX, FunctionCall("f", "c1"),
      Message("assistant", <<OutputText(<<"d", "o", "n", "e">>)>>, None, None)>>
ScenarioImage ==
    <<Message("user", <<InputText(TextA), InputImage("u")>>, None, None),
      FunctionCall("f", "c1"),
      FunctionCallOutput("c1", TextA, Some(<<InputText(TextB)>>)),
      CustomToolCall(None, "c2", "g"), LocalShellCall(Some("c1"), None),
      Reasoning(None), CustomToolCallOutput("c2", TextA)>>
\* A user message behind a pending call that follows an answered call, and behind
\* a group of two calls of which one is answered.
ScenarioAnswered ==
    <<FunctionCall("f", "c1"), FunctionCallOutput("c1", TextA, None),
      FunctionCall("f", "c2"), UserX>>
ScenarioPartlyAnswered ==
    <<FunctionCall("f", "c1"), FunctionCall("f", "c2"),
      FunctionCallOutput("c1", TextA, None), UserX>>
\* Two calls of one group, each with reasoning of its own in front of it.
ScenarioReasonedCalls ==
    <<Reasoning(Some(<<[type |-> "ReasoningText", text |-> <<"p">>]>>)),
      FunctionCall("f", "c1"),
      Reasoning(Some(<<[type |-> "Text", text |-> <<"q">>]>>)),
      LocalShellCall(Some("c2"), Some("c2"))>>
\* An answered call with reasoning in front of it, and a developer message last.
ScenarioDeveloperLast ==
    <<Reasoning(Some(<<[type |-> "ReasoningText", text |-> <<"r">>]>>)),
      FunctionCall("f", "c1"), FunctionCallOutput("c1", TextA, None),
      Message("developer", <<InputText(TextB)>>, None, None)>>
Scenarios ==
    {ScenarioS1, ScenarioS3, ScenarioS4, ScenarioImage, ScenarioAnswered,
     ScenarioPartlyAnswered, ScenarioReasonedCalls, ScenarioDeveloperLast}

RECURSIVE SeqsUpTo(_, _)
SeqsUpTo(S, n) ==
    IF n = 0 THEN {<<>>}
    ELSE LET shorter == SeqsUpTo(S, n - 1) IN
         shorter \cup {Append(h, x) : h \in {g \in shorter : Len(g) = n - 1}, x \in S}

\* stream_events_utils.rs 115-121: the output that answers a LocalShellCall without ids.
MissingIdResponse ==
    FunctionCallOutput("", <<"LocalShellCall without call_id or id">>, None)

\* stream_events_utils.rs 107-134: the two items that the recovery from a
\* LocalShellCall without ids records, in the order it records them.
RecoveryPair == <<LocalShellCall(None, None), MissingIdResponse>>

\* Histories of a later request: the recovery's items behind and in front of at
\* most one other item.
RecoveryHistories ==
    {pre \o RecoveryPair \o post : pre \in SeqsUpTo(Items, 1), post \in SeqsUpTo(Items, 1)}

Histories == SeqsUpTo(Items, MaxLen) \cup Scenarios \cup RecoveryHistories

GivenReasoning == {None, Some(<<"g">>)}

\* Conversation ids and session sources are varied for histories up to this length.
MaxHeaderLen == 1

ConversationIds == {None, Some("conv-1")}

\* SessionSource: the plain sources and SubAgent(SubAgentSource).
SubAgent(kind) == [source |-> "SubAgent", kind |-> kind]
PlainSource(name) == [source |-> name, kind |-> "none"]
SessionSources ==
    {None, Some(PlainSource("Cli")), Some(PlainSource("Exec")),
     Some(SubAgent("Review")), Some(SubAgent("Compact"))}

\* ------------------------------------------------------------------ build: headers

NoHeaders == [name \in {} |-> ""]

insert_header(hdrs, name, value) ==
    [n \in DOMAIN hdrs \cup {name} |-> IF n = name THEN value ELSE hdrs[n]]

\* build_conversation_headers(conversation_id): the id under session_id, when given.
build_conversation_headers(id) ==
    IF IsSome(id) THEN insert_header(NoHeaders, "session_id", Unwrap(id)) ELSE NoHeaders

\* subagent_header(&session_source): the sub-agent kind's label, None for other sources.
subagent_header(source) ==
    IF IsSome(source) /\ Unwrap(source).source = "SubAgent"
    THEN Some(IF Unwrap(source).kind = "Review" THEN "review" ELSE "compact")
    ELSE None

\* Mutant: the x-openai-subagent header is inserted whatever subagent_header returns.
RequestHeadersAlwaysSubagent(id, source) ==
    LET subagent == subagent_header(source) IN
    insert_header(build_conversation_headers(id), "x-openai-subagent",
                  IF IsSome(subagent) THEN Unwrap(subagent) ELSE "")

\* chat.rs 503-506
RequestHeaders(id, source) ==
    LET hdrs == build_conversation_headers(id)
        subagent == subagent_header(source)
    IN IF IsSome(subagent)
       THEN insert_header(hdrs, "x-openai-subagent", Unwrap(subagent))
       ELSE hdrs

\* ------------------------------------------------------------------ the assembler as a state machine

BuildInit ==
    /\ input \in Histories
    /\ reasoning_content \in GivenReasoning
    /\ conversation_id \in ConversationIds
    /\ session_source \in SessionSources
    /\ Len(input) > MaxHeaderLen => (conversation_id = None /\ session_source = None)
    /\ bpc = "new"
    /\ loop = <<>>
    /\ messages = <<>>
    /\ outcome = [status |-> "none"]
    /\ headers = None

\* ChatRequestBuilder::build (chat.rs 62-514)
Build ==
    /\ bpc = "new"
    /\ LET trace == MainLoop(input, reasoning_content,
                             reasoning_by_anchor_index(input), Len(input))
           msgs == IF input = <<>> THEN LoopInit.messages
                   ELSE trace[Len(input)].messages
       IN /\ loop' = trace
          /\ messages' = msgs
          /\ outcome' = BuildOutcome(msgs)
          /\ headers' = IF BuildOutcome(msgs).status = "Ok"
                        THEN Some(RequestHeaders(conversation_id, session_source))
                        ELSE None
    /\ bpc' = "built"
    /\ UNCHANGED <<input, reasoning_content, conversation_id, session_source,
                   ovars, rvars, dvars>>

BuildNext == Build

\* ------------------------------------------------------------------ reading the emitted messages

Built == bpc = "built"
ReturnedOk == Built /\ outcome.status = "Ok"

IsToolCallItem(item) == item.type \in {"FunctionCall", "LocalShellCall", "CustomToolCall"}
IsOutputItem(item) == item.type \in {"FunctionCallOutput", "CustomToolCallOutput"}
IsSilentItem(item) == ~IsToolCallItem(item) /\ ~IsOutputItem(item) /\ item.type # "Message"

\* The id a tool-call item carries in its tool_calls entry.
WireId(item) ==
    CASE item.type = "FunctionCall" -> item.call_id
      [] item.type = "LocalShellCall" -> LocalShellWireId(item)
      [] item.type = "CustomToolCall" -> CustomWireId(item)

CarriesToolCalls(msg) ==
    msg.role = "assistant" /\ HasToolCalls(msg) /\ msg.tool_calls # <<>>
ToolCallIds(msg) == {msg.tool_calls[k].id : k \in 1..Len(msg.tool_calls)}
ToolCallIdSeq(msg) == [k \in 1..Len(msg.tool_calls) |-> msg.tool_calls[k].id]

\* The first position after i that holds a non-tool message (Len + 1 if none).
NextNonTool(msgs, i) ==
    LET later == {j \in (i + 1)..Len(msgs) : msgs[j].role # "tool"} IN
    IF later = {} THEN Len(msgs) + 1 ELSE CHOOSE j \in later : \A m \in later : j <= m

\* The tool_call_ids of the tool messages between i and the next non-tool message.
AnsweredAfter(msgs, i) ==
    {msgs[j].tool_call_id :
        j \in {m \in (i + 1)..(NextNonTool(msgs, i) - 1) : "tool_call_id" \in DOMAIN msgs[m]}}

Covered(msgs, i) == ToolCallIds(msgs[i]) \subseteq AnsweredAfter(msgs, i)
NoToolRole(msgs) == \A i \in 1..Len(msgs) : msgs[i].role # "tool"

\* ------------------------------------------------------------------ C1

\* C1 (as stated): whenever build returns Ok, every assistant message with a
\* non-empty tool_calls array is followed, before the next non-tool message, by
\* tool messages covering each of its ids.
C1_PairingWheneverOk ==
    ReturnedOk =>
        \A i \in 1..Len(outcome.messages) :
            CarriesToolCalls(outcome.messages[i]) => Covered(outcome.messages, i)

\* C1 (amended): when build returns Ok and the messages hold no tool-role entry,
\* an assistant message with tool_calls that is followed by a non-tool message is
\* covered before it; only one that ends the messages may stay unanswered.
C1_PairingWhenValidated ==
    (ReturnedOk /\ NoToolRole(outcome.messages)) =>
        \A i \in 1..Len(outcome.messages) :
            CarriesToolCalls(outcome.messages[i]) =>
                \/ Covered(outcome.messages, i)
                \/ NextNonTool(outcome.messages, i) > Len(outcome.messages)

C1_Witness ==
    /\ ReturnedOk /\ NoToolRole(outcome.messages)
    /\ Len(outcome.messages) >= 3
    /\ CarriesToolCalls(outcome.messages[Len(outcome.messages)])
    /\ \E k \in 1..Len(input) : input[k].type = "Message" /\ input[k].role = "assistant"

\* ------------------------------------------------------------------ C9

\* An assistant message with tool_calls that a non-tool message follows before
\* tool messages have covered all its ids.
Unanswered(msgs, i) ==
    /\ CarriesToolCalls(msgs[i])
    /\ NextNonTool(msgs, i) <= Len(msgs)
    /\ ~Covered(msgs, i)

C10_OkWithToolMessages ==
    Built =>
        /\ has_tool_messages(messages) =>
               outcome = [status |-> "Ok", messages |-> messages]
        /\ outcome.status \in {"Ok", "BadRequest"}
        /\ outcome.status = "BadRequest" => outcome.call_id \in STRING

C10_Witness ==
    /\ ReturnedOk
    /\ has_tool_messages(messages)
    /\ \E i \in 1..Len(messages) : Unanswered(messages, i)

\* ------------------------------------------------------------------ C8

\* The loop's locals before iteration k.
Before(k) == IF k = 1 THEN LoopInit ELSE loop[k - 1]

\* Iteration k handles a user message (a developer message is rewritten to user)
\* while tool calls are pending.
UserWhilePending(k) ==
    /\ input[k].type = "Message" /\ input[k].role \in {"user", "developer"}
    /\ Before(k).pending_tool_call_ids # {}

NoToolCallsIn(msgs) == \A i \in 1..Len(msgs) : ~HasToolCalls(msgs[i])

\* The ids that tool_calls entries carry in msgs.
AllToolCallIds(msgs) ==
    UNION {ToolCallIds(msgs[i]) : i \in {j \in 1..Len(msgs) : HasToolCalls(msgs[j])}}

\* The ids that the items after position k put into tool_calls entries.
IdsEmittedAfter(k) ==
    {WireId(input[j]) : j \in {m \in (k + 1)..Len(input) : IsToolCallItem(input[m])}}
    \cup UNION {{Unwrap(input[j].tool_calls)[n].id :
                      n \in 1..Len(Unwrap(input[j].tool_calls))} :
                  j \in {m \in (k + 1)..Len(input) :
                           /\ input[m].type = "Message" /\ input[m].role = "assistant"
                           /\ IsSome(input[m].tool_calls)}}

\* C8: a user message met while the pending-call-id set is non-empty removes the
\* assistant message carrying the pending calls and clears the set, so no
\* tool_calls entry emitted so far survives; [user X, FunctionCall c1, user Y]
\* gives exactly system, user(X), user(Y).
C8_EvictionOnUser ==
    Built =>
        /\ \A k \in 1..Len(input) :
               UserWhilePending(k) =>
                   /\ loop[k].pending_tool_call_ids = {}
                   /\ NoToolCallsIn(loop[k].messages)
                   /\ loop[k].messages[Len(loop[k].messages)].role = "user"
                   /\ \A id \in Before(k).pending_tool_call_ids :
                          id \notin IdsEmittedAfter(k) => id \notin AllToolCallIds(messages)
        /\ input = ScenarioS3 =>
               outcome = [status |-> "Ok",
                          messages |-> <<SystemMsg, PlainMsg("user", JStr(<<"X">>)),
                                         PlainMsg("user", JStr(<<"Y">>))>>]

C8_Witness ==
    /\ ReturnedOk /\ input = ScenarioS3
    /\ UserWhilePending(3)
    /\ Len(messages) = 3

\* ------------------------------------------------------------------ C7

\* A run of consecutive tool-call items: positions s..e that start and end with a
\* tool-call item, hold only tool-call items and items that emit nothing, and
\* cannot be extended on either side.
CallBefore(s) ==
    \E j \in 1..(s - 1) :
        IsToolCallItem(input[j]) /\ \A m \in (j + 1)..(s - 1) : IsSilentItem(input[m])
CallAfter(e) ==
    \E j \in (e + 1)..Len(input) :
        IsToolCallItem(input[j]) /\ \A m \in (e + 1)..(j - 1) : IsSilentItem(input[m])
IsRun(s, e) ==
    /\ s <= e
    /\ IsToolCallItem(input[s]) /\ IsToolCallItem(input[e])
    /\ \A m \in s..e : IsToolCallItem(input[m]) \/ IsSilentItem(input[m])
    /\ ~CallBefore(s) /\ ~CallAfter(e)
Runs == {se \in (1..Len(input)) \X (1..Len(input)) : IsRun(se[1], se[2])}

\* The tool_calls entry of a tool-call item (chat.rs 333-340, 360-365, 421-428).
ToolCallEntry(item) ==
    CASE item.type = "FunctionCall" ->
            FunctionToolCall(item.call_id, item.name, item.arguments)
      [] item.type = "LocalShellCall" ->
            LocalShellToolCall(LocalShellWireId(item), item.status, item.action)
      [] item.type = "CustomToolCall" ->
            CustomToolCallJson(CustomWireId(item), item.name, item.input)

\* The entries of the calls at positions s..e, in input order.
RECURSIVE RunEntries(_, _)
RunEntries(s, e) ==
    IF s > e THEN <<>>
    ELSE (IF IsToolCallItem(input[s]) THEN <<ToolCallEntry(input[s])>> ELSE <<>>)
         \o RunEntries(s + 1, e)

IsWrapperOf(msg, s, e) ==
    /\ msg.role = "assistant" /\ msg.content = JNull
    /\ HasToolCalls(msg) /\ msg.tool_calls = RunEntries(s, e)

\* An eviction happens in some iteration after e.
EvictedAfter(e) ==
    \E k \in (e + 1)..Len(input) :
        /\ input[k].type = "Message"
        /\ EvictionApplies(Before(k), IF input[k].role = "developer" THEN "user"
                                      ELSE input[k].role)
        /\ input[k].role # "assistant"

AdjacentDuplicate(k) ==
    /\ k < Len(input)
    /\ input[k].type = "Message" /\ input[k].role = "assistant"
    /\ input[k + 1].type = "Message" /\ input[k + 1].role = "assistant"
    /\ ContentText(input[k].content) = ContentText(input[k + 1].content)

\* C11 (as stated): two adjacent assistant Message items with identical text
\* add exactly one assistant message to the emitted messages.
C11_AdjacentDuplicatesCollapse ==
    Built => \A k \in 1..Len(input) :
                 AdjacentDuplicate(k) =>
                     Len(loop[k + 1].messages) = Len(Before(k).messages) + 1

\* ------------------------------------------------------------------ C19

\* What a Message item's content is emitted as outside the assistant and tool arms.
PlainContent(item) ==
    IF SawImage(item.content) THEN JArr(ContentParts(item.content))
    ELSE JStr(ContentText(item.content))

\* C19: no emitted message has role "developer"; the iteration that handles a
\* developer Message ends with a user message of the same content as the last
\* emitted message, and that message is in the returned messages.
C19_DeveloperEmittedAsUser ==
    Built =>
        /\ \A i \in 1..Len(messages) : messages[i].role # "developer"
        /\ \A k \in 1..Len(input) :
               (input[k].type = "Message" /\ input[k].role = "developer") =>
                   /\ \A i \in 1..Len(loop[k].messages) :
                          loop[k].messages[i].role # "developer"
                   /\ loop[k].messages[Len(loop[k].messages)] =
                          PlainMsg("user", PlainContent(input[k]))
                   /\ \E i \in 1..Len(messages) :
                          messages[i] = PlainMsg("user", PlainContent(input[k]))

C19_Witness ==
    /\ ReturnedOk /\ Len(input) = 3
    /\ input[2].type = "Message" /\ input[2].role = "developer"
    /\ input[1].type = "FunctionCall"
    /\ messages[2] = PlainMsg("user", JStr(TextB))

\* ------------------------------------------------------------------ C20

IsBlankReasoning(it) ==
    /\ it.type = "Reasoning" /\ IsSome(it.content)
    /\ TrimIsEmpty(ReasoningText(Unwrap(it.content)))

IsNotBlankReasoning(it) == ~IsBlankReasoning(it)

\* The messages build assembles for a history.
Assemble(in, given) ==
    IF in = <<>> THEN LoopInit.messages
    ELSE MainLoop(in, given, reasoning_by_anchor_index(in), Len(in))[Len(in)].messages

\* C20 (as stated): the assembled messages of a history are those of the same
\* history with its whitespace-only Reasoning items removed.
C20_BlankReasoningInvisible ==
    Built => messages = Assemble(SelectSeq(input, IsNotBlankReasoning), reasoning_content)

\* ------------------------------------------------------------------ C21

\* Some iteration evicted.
EvictionOccurred == \E k \in 1..Len(input) : UserWhilePending(k)

\* C21: the first assembled message is the system message, before and after
\* every iteration and whether or not an eviction took place; no iteration adds
\* more than one message, and an item of no emitting kind adds none, so every
\* message after the first comes from a history item.
C21_SystemMessageFirst ==
    Built =>
        /\ Len(messages) >= 1 /\ messages[1] = SystemMsg
        /\ Len(messages) <= 1 + Len(input)
        /\ \A k \in 1..Len(input) :
               /\ Len(loop[k].messages) >= 1 /\ loop[k].messages[1] = SystemMsg
               /\ Len(loop[k].messages) <= Len(Before(k).messages) + 1
               /\ IsSilentItem(input[k]) => loop[k].messages = Before(k).messages
        /\ \A i \in 2..Len(messages) : messages[i].role # "system"

C21_Witness ==
    /\ ReturnedOk /\ EvictionOccurred
    /\ Len(input) = 2 /\ Len(messages) = 2
    /\ messages[1] = SystemMsg /\ messages[2].role = "user"

\* ------------------------------------------------------------------ C25

RequestBuilt == bpc = "built" /\ outcome.status = "Ok"
IsSubAgent(source) == source # None /\ source[1].source = "SubAgent"

\* C25: the headers of a built request hold session_id, with the conversation
\* id as its value, exactly when a conversation id was given, and
\* x-openai-subagent exactly when session_source is a sub-agent source, with
\* "review" for SubAgent(Review); any other session has no x-openai-subagent.
C25_Headers ==
    RequestBuilt =>
        LET hdrs == headers[1] IN
        /\ "session_id" \in DOMAIN hdrs <=> conversation_id # None
        /\ conversation_id # None => hdrs["session_id"] = conversation_id[1]
        /\ "x-openai-subagent" \in DOMAIN hdrs <=> IsSubAgent(session_source)
        /\ session_source = Some(SubAgent("Review")) =>
               hdrs["x-openai-subagent"] = "review"

\* The unit test's request (chat.rs 676-699), and a Cli session beside it.
C25_Witness ==
    /\ RequestBuilt
    /\ Len(input) = 1 /\ input[1].type = "Message" /\ input[1].role = "user"
    /\ conversation_id = Some("conv-1")
    /\ session_source = Some(SubAgent("Review"))
    /\ headers = Some([n \in {"session_id", "x-openai-subagent"} |->
                          IF n = "session_id" THEN "conv-1" ELSE "review"])

\* ------------------------------------------------------------------ C26

\* Iteration k handles an assistant message while tool calls are pending.
AssistantWhilePending(k) ==
    /\ input[k].type = "Message" /\ input[k].role = "assistant"
    /\ Before(k).pending_tool_call_ids # {}

\* C26 as stated: an assistant Message met while the pending set is non-empty
\* evicts too: when it has been emitted, the pending set is empty and no
\* message before it carries tool_calls.
C26_AssistantEvicts ==
    Built =>
        \A k \in 1..Len(input) :
            AssistantWhilePending(k) =>
                LET after == loop[k].messages IN
                /\ loop[k].pending_tool_call_ids = {}
                /\ after[Len(after)].role = "assistant"
                /\ NoToolCallsIn(SubSeq(after, 1, Len(after) - 1))

\* ------------------------------------------------------------------ C27

\* Iteration k evicts (chat.rs 266-277).
EvictsAt(k) ==
    /\ UserWhilePending(k)
    /\ IsSome(Before(k).last_assistant_with_tool_calls_index)

\* The positions of the assistant messages that carry a tool_calls key.
ToolCallsPositions(msgs) ==
    {i \in 1..Len(msgs) : msgs[i].role = "assistant" /\ HasToolCalls(msgs[i])}
LastToolCallsPosition(msgs) ==
    CHOOSE i \in ToolCallsPositions(msgs) : \A j \in ToolCallsPositions(msgs) : j <= i

\* Some call of the message at position i has a tool message behind it.
HasResponse(msgs, i) ==
    \E j \in (i + 1)..Len(msgs) :
        /\ msgs[j].role = "tool" /\ "tool_call_id" \in DOMAIN msgs[j]
        /\ msgs[j].tool_call_id \in ToolCallIds(msgs[i])

Without(msgs, i) == SubSeq(msgs, 1, i - 1) \o SubSeq(msgs, i + 1, Len(msgs))

\* The tool message at position j follows an assistant message that lists its id.
HasCallBefore(msgs, j) ==
    \E i \in 1..(j - 1) :
        /\ msgs[i].role = "assistant" /\ HasToolCalls(msgs[i])
        /\ msgs[j].tool_call_id \in ToolCallIds(msgs[i])

Orphans(msgs) ==
    {j \in 1..Len(msgs) :
        /\ msgs[j].role = "tool" /\ "tool_call_id" \in DOMAIN msgs[j]
        /\ ~HasCallBefore(msgs, j)}

\* C27 as stated: an eviction removes the last assistant message with
\* tool_calls only, and only when none of its calls has a tool response;
\* earlier answered tool_calls messages stay, so the eviction leaves as many
\* tool messages without a preceding call as there were before it.
C27_EvictionRemovesIncompleteOnly ==
    Built =>
        \A k \in 1..Len(input) :
            (EvictsAt(k) /\ ToolCallsPositions(Before(k).messages) # {}) =>
                LET before == Before(k).messages
                    after == loop[k].messages
                    last == LastToolCallsPosition(before)
                    kept == SubSeq(after, 1, Len(after) - 1)
                IN /\ kept = IF HasResponse(before, last) THEN before
                             ELSE Without(before, last)
                   /\ Cardinality(Orphans(after)) = Cardinality(Orphans(before))

\* ------------------------------------------------------------------ C29

Anchors == reasoning_by_anchor_index(input)

\* The message iteration k has just emitted.
EmittedAt(k) == loop[k].messages[Len(loop[k].messages)]

\* C29 as stated: reasoning anchored to an assistant message is emitted as the
\* reasoning field of the assistant message emitted for it.
C29_AssistantReasoningField ==
    Built =>
        \A k \in DOMAIN Anchors :
            (input[k].type = "Message" /\ input[k].role = "assistant") =>
                /\ EmittedAt(k).role = "assistant"
                /\ "reasoning" \in DOMAIN EmittedAt(k)
                /\ EmittedAt(k).reasoning = Anchors[k]

\* ------------------------------------------------------------------ C30

\* The anchored reasoning of the calls at positions s..e, in call order, with a
\* newline between one text and the next.
RECURSIVE JoinAnchored(_, _)
JoinAnchored(s, e) ==
    IF s > e THEN <<>>
    ELSE LET rest == JoinAnchored(s + 1, e) IN
         IF IsToolCallItem(input[s]) /\ s \in DOMAIN Anchors
         THEN Anchors[s] \o (IF rest = <<>> THEN <<>> ELSE <<"\n">> \o rest)
         ELSE rest

\* C30: when a run of tool calls has been processed, the wrapper that holds its
\* calls has as reasoning_content the reasoning anchored to its FunctionCall and
\* LocalShellCall items, joined in call order with a newline between the texts,
\* and "" when none of its calls has anchored reasoning.
C30_WrapperReasoning ==
    Built =>
        \A se \in Runs :
            LET wrapper == EmittedAt(se[2]) IN
            /\ wrapper.role = "assistant" /\ HasToolCalls(wrapper)
            /\ Len(wrapper.tool_calls) =
                   Cardinality({k \in se[1]..se[2] : IsToolCallItem(input[k])})
            /\ wrapper.reasoning_content = JoinAnchored(se[1], se[2])
            /\ \A k \in (se[1]..se[2]) \cap DOMAIN Anchors :
                   input[k].type \in {"FunctionCall", "LocalShellCall"}

C30_Witness ==
    /\ Built /\ input = ScenarioReasonedCalls
    /\ <<2, 4>> \in Runs
    /\ DOMAIN Anchors = {2, 4}
    /\ Len(messages) = 2 /\ Len(messages[2].tool_calls) = 2
    /\ messages[2].reasoning_content = <<"p", "\n", "q">>

\* ------------------------------------------------------------------ C31

\* The items that emit a message, and the role they are emitted with.
EmitsMessage(item) ==
    item.type = "Message" \/ IsToolCallItem(item) \/ IsOutputItem(item)
RoleEmittedFor(item) ==
    IF item.type = "Message" THEN (IF item.role = "developer" THEN "user" ELSE item.role)
    ELSE IF IsToolCallItem(item) THEN "assistant" ELSE "tool"

EmittingPositions == {k \in 1..Len(input) : EmitsMessage(input[k])}
LastEmittedIsUser ==
    /\ EmittingPositions # {}
    /\ LET last == CHOOSE k \in EmittingPositions : \A j \in EmittingPositions : j <= k
       IN RoleEmittedFor(input[last]) = "user"

\* The position of the last message that is emitted with role user (0 if none).
UserPositions ==
    {k \in 1..Len(input) : input[k].type = "Message" /\ RoleEmittedFor(input[k]) = "user"}
LastUserPosition ==
    IF UserPositions = {} THEN 0
    ELSE CHOOSE k \in UserPositions : \A j \in UserPositions : j <= k

\* The message holds reasoning text taken from the history.
CarriesHistoryReasoning(msg) ==
    \/ "reasoning" \in DOMAIN msg
    \/ /\ msg.role = "assistant" /\ HasToolCalls(msg) /\ msg.content = JNull
       /\ msg.reasoning_content # <<>>

\* The Reasoning items whose text the final messages may carry: the wrapper of
\* the call behind them is among the messages.
ReasoningBeforeLastUserCarried ==
    \E k \in 1..Len(input) :
        /\ k < LastUserPosition
        /\ input[k].type = "Reasoning"
        /\ k + 1 \in DOMAIN Anchors
        /\ \E i \in 1..Len(messages) : CarriesHistoryReasoning(messages[i])

\* C31 as stated: reasoning from the history is anchored only when the last
\* emitted role is not user and only for Reasoning items behind the last user
\* message; when the last emitted role is user no emitted message carries
\* reasoning text of the history, and no Reasoning item at or before the last
\* user message is anchored.
C31_AnchoredOnlyBehindLastUser ==
    Built =>
        /\ LastEmittedIsUser =>
               /\ DOMAIN Anchors = {}
               /\ \A i \in 1..Len(messages) : ~CarriesHistoryReasoning(messages[i])
        /\ \A k \in DOMAIN Anchors : k > LastUserPosition
        /\ ~ReasoningBeforeLastUserCarried

\* ------------------------------------------------------------------ C32

\* C32 as stated: a Message with role tool and no id is skipped: its iteration
\* adds no message, and no message with role tool lacks a tool_call_id.
C32_ToolMessageWithoutIdSkipped ==
    Built =>
        /\ \A k \in 1..Len(input) :
               (input[k].type = "Message" /\ input[k].role = "tool" /\ input[k].id = None)
                   => loop[k].messages = Before(k).messages
        /\ \A i \in 1..Len(messages) :
               messages[i].role = "tool" => "tool_call_id" \in DOMAIN messages[i]

\* ------------------------------------------------------------------ C33

IsString(v) == DOMAIN v = 1..Len(v) /\ \A i \in DOMAIN v : v[i] \in STRING

AssistantPositions(msgs) == {i \in 1..Len(msgs) : msgs[i].role = "assistant"}

\* C33: after every iteration each assistant message has a reasoning_content
\* that is a string; the message emitted for an assistant Message holds the
\* builder's given reasoning_content or "", and a wrapper started by a call
\* holds that call's anchored reasoning or "".
C33_AssistantHasReasoningContent ==
    Built =>
        \A k \in 1..Len(input) :
            /\ \A i \in AssistantPositions(loop[k].messages) :
                   /\ "reasoning_content" \in DOMAIN loop[k].messages[i]
                   /\ IsString(loop[k].messages[i].reasoning_content)
            /\ (input[k].type = "Message" /\ input[k].role = "assistant") =>
                   /\ EmittedAt(k).role = "assistant"
                   /\ EmittedAt(k).reasoning_content =
                          IF reasoning_content = None THEN <<>> ELSE reasoning_content[1]
            /\ (IsToolCallItem(input[k]) /\ Len(EmittedAt(k).tool_calls) = 1) =>
                   EmittedAt(k).reasoning_content =
                       IF k \in DOMAIN Anchors THEN Anchors[k] ELSE <<>>

\* A wrapper with anchored reasoning and, behind it, the message of an
\* assistant Message built without given reasoning.
C33_Witness ==
    /\ Built /\ reasoning_content = None /\ Len(input) = 3
    /\ input[3].type = "Message" /\ input[3].role = "assistant"
    /\ Len(messages) = 3
    /\ HasToolCalls(messages[2]) /\ messages[2].reasoning_content = <<"r">>
    /\ ~HasToolCalls(messages[3]) /\ messages[3].reasoning_content = <<>>

\* ------------------------------------------------------------------ C38

ToolPositions(msgs) == {i \in 1..Len(msgs) : msgs[i].role = "tool"}

RecoveryPositions ==
    {k \in 1..(Len(input) - 1) : <<input[k], input[k + 1]>> = RecoveryPair}

LastOf(s) == s[Len(s)]

\* chat.rs 351-375: the call is the last tool_calls entry of the last message.
EmittedAsToolCall(k) ==
    LET m == LastOf(loop[k].messages) IN
    /\ m.role = "assistant" /\ "tool_calls" \in DOMAIN m /\ m.tool_calls # <<>>
    /\ LastOf(m.tool_calls).type = "local_shell_call"

\* chat.rs 376-410: the output adds one tool message, and it names the entry's id.
AnsweredByToolMessage(k) ==
    /\ Len(loop[k + 1].messages) = Len(loop[k].messages) + 1
    /\ LastOf(loop[k + 1].messages).role = "tool"
    /\ LastOf(loop[k + 1].messages).tool_call_id
           = LastOf(LastOf(loop[k].messages).tool_calls).id

RecoveryAccepted(k) ==
    /\ outcome.status = "Ok"
    /\ EmittedAsToolCall(k)
    /\ AnsweredByToolMessage(k)

\* C39 as stated: the recovery's pair is accepted on the next request, the tool
\* message names the id of the emitted call, and no call id is pending after
\* the pair.
C39_RecoveryLeavesNothingPending ==
    Built =>
        \A k \in RecoveryPositions :
            /\ RecoveryAccepted(k)
            /\ loop[k + 1].pending_tool_call_ids = {}

\* C39, amended: the recovery's pair is accepted on the next request, the tool
\* message names the id of the emitted call, and the pair leaves pending exactly
\* the call ids other than "" that were pending in front of it.
C39_RecoveryPairAnswered ==
    Built =>
        \A k \in RecoveryPositions :
            /\ RecoveryAccepted(k)
            /\ loop[k + 1].pending_tool_call_ids = Before(k).pending_tool_call_ids \ {""}
            /\ Before(k).pending_tool_call_ids = {} => loop[k + 1].pending_tool_call_ids = {}

\* A FunctionCall, the recovery's pair behind it, then the call's output: the
\* pair is accepted while c1 is still pending.
C39_Witness ==
    /\ ReturnedOk
    /\ input = <<FunctionCall("f", "c1")>> \o RecoveryPair
                   \o <<FunctionCallOutput("c1", TextA, None)>>
    /\ RecoveryPositions = {2}
    /\ RecoveryAccepted(2)
    /\ loop[3].pending_tool_call_ids = {"c1"}
    /\ loop[4].pending_tool_call_ids = {}

\* ================================================================== tool orchestrator

\* ExecApprovalRequirement (orchestrator.rs 58-76)
Skip == [kind |-> "Skip", reason |-> None]
Forbidden(reason) == [kind |-> "Forbidden", reason |-> Some(reason)]
NeedsApproval(reason) == [kind |-> "NeedsApproval", reason |-> reason]

Requirements ==
    {Skip, Forbidden("forbidden by policy"), NeedsApproval(None),
     NeedsApproval(Some("needs approval"))}

\* AskForApproval
Policies == {"Never", "OnRequest", "OnFailure", "UnlessTrusted"}

\* ReviewDecision (orchestrator.rs 93-100)
Decisions ==
    {"Approved", "ApprovedExecpolicyAmendment", "ApprovedForSession", "Denied", "Abort"}

\* Result<Out, ToolError>
OkOut(out) == [ok |-> TRUE, out |-> out]
ErrRejected(msg) == [ok |-> FALSE, err |-> [kind |-> "Rejected", detail |-> msg]]
ErrSandboxDenied(output) ==
    [ok |-> FALSE, err |-> [kind |-> "SandboxDenied", detail |-> output]]
ErrCodex(what) == [ok |-> FALSE, err |-> [kind |-> "Codex", detail |-> what]]

\* What tool.run can return.
RunResults ==
    {OkOut("out"), ErrSandboxDenied("denied output"), ErrCodex("Timeout"),
     ErrCodex("Fatal"), ErrRejected("rejected by tool")}

\* Mutant: every error counts as a sandbox denial.
IsAnyError(r) == ~r.ok

\* orchestrator.rs 138: the arm that matches Sandbox(Denied).
IsSandboxDenied(r) == ~r.ok /\ r.err.kind = "SandboxDenied"

\* Mutant: the reason is the denied output.
denial_reason_is_output(output) == output

\* orchestrator.rs 232-236
build_denial_reason_from_output(output) == "command failed; retry without sandbox?"

\* orchestrator.rs 155-157: under Never or OnRequest there is no unsandboxed retry.
wants_no_sandbox_approval(policy) == policy \notin {"Never", "OnRequest"}

\* Approvable::should_bypass_approval: no prompt when the call is already approved
\* or the policy asks for none.
should_bypass_approval(policy, approved) == approved \/ policy = "Never"

\* Mutant: Abort is not treated as a rejection.
IsRejectionDeniedOnly(decision) == decision = "Denied"

\* orchestrator.rs 94, 177: the decisions that reject.
IsRejection(decision) == decision \in {"Denied", "Abort"}

\* Mutant: the policy is not consulted before the retry.
RetryGateIgnoresPolicy(escalate, policy) == escalate

\* orchestrator.rs 145-161: the retry gate.
RetryGate(escalate, policy) == escalate /\ wants_no_sandbox_approval(policy)

\* The entries of the event log.
PromptEvent(reason) == [kind |-> "prompt", retry_reason |-> reason]
DecisionEvent(decision, source) ==
    [kind |-> "tool_decision", decision |-> decision, source |-> source]
AttemptEvent(sandbox, exe) ==
    [kind |-> "attempt", sandbox |-> sandbox, codex_linux_sandbox_exe |-> exe]
ReturnEvent(r) == [kind |-> "attempt_returned", result |-> r]

\* orchestrator.rs 109-114
InitialSandbox ==
    IF tool.sandbox_override = "BypassSandboxFirstAttempt" THEN "None"
    ELSE turn_ctx.platform_sandbox

\* orchestrator.rs 118-132: the first attempt is built and tool.run is awaited.
FirstAttempt == AttemptEvent(InitialSandbox, turn_ctx.codex_linux_sandbox_exe)

\* Mutant: the escalated attempt keeps the sandbox of the first.
EscalatedAttemptKeepsSandbox == AttemptEvent(InitialSandbox, turn_ctx.codex_linux_sandbox_exe)

\* orchestrator.rs 197-211: the escalated attempt.
EscalatedAttempt == AttemptEvent("None", None)

OrchInit ==
    /\ requirement \in Requirements
    /\ approval_policy \in Policies
    /\ tool \in [escalate_on_failure : BOOLEAN,
                 sandbox_override : {"NoOverride", "BypassSandboxFirstAttempt"}]
    /\ turn_ctx \in [platform_sandbox : {"None", "LinuxSeccomp"},
                     codex_linux_sandbox_exe : {None, Some("exe")}]
    /\ already_approved = FALSE
    /\ opc = "start"
    /\ events = <<>>
    /\ result = None

OrchFixed ==
    UNCHANGED <<requirement, approval_policy, tool, turn_ctx, bvars, rvars, dvars>>

\* Mutant: the Skip arm asks the user all the same.
StartSkipAsks ==
    /\ opc = "start" /\ requirement.kind = "Skip"
    /\ events' = Append(events, PromptEvent(requirement.reason))
    /\ opc' = "initial_prompt"
    /\ UNCHANGED <<already_approved, result>>
    /\ OrchFixed

\* orchestrator.rs 59-66, then 109-132: no approval is needed; the first attempt starts.
StartSkip ==
    /\ opc = "start" /\ requirement.kind = "Skip"
    /\ events' = events \o <<DecisionEvent("Approved", "Config"), FirstAttempt>>
    /\ opc' = "first_attempt"
    /\ UNCHANGED <<already_approved, result>>
    /\ OrchFixed

\* orchestrator.rs 67-75
StartForbidden ==
    /\ opc = "start" /\ requirement.kind = "Forbidden"
    /\ result' = Some(ErrRejected(Unwrap(requirement.reason)))
    /\ opc' = "returned"
    /\ UNCHANGED <<already_approved, events>>
    /\ OrchFixed

\* orchestrator.rs 76-89: the initial prompt is sent and awaited.
StartNeedsApproval ==
    /\ opc = "start" /\ requirement.kind = "NeedsApproval"
    /\ events' = Append(events, PromptEvent(requirement.reason))
    /\ opc' = "initial_prompt"
    /\ UNCHANGED <<already_approved, result>>
    /\ OrchFixed

\* Mutant: an approval is not remembered in already_approved.
InitialDecisionForgets(decision) ==
    /\ opc = "initial_prompt"
    /\ IF IsRejection(decision)
       THEN /\ events' = Append(events, DecisionEvent(decision, "User"))
            /\ result' = Some(ErrRejected("rejected by user"))
            /\ opc' = "returned"
       ELSE /\ events' = events \o <<DecisionEvent(decision, "User"), FirstAttempt>>
            /\ opc' = "first_attempt"
            /\ UNCHANGED result
    /\ UNCHANGED already_approved
    /\ OrchFixed

\* orchestrator.rs 89-105, then 109-132: the answer to the initial prompt.
InitialDecision(decision) ==
    /\ opc = "initial_prompt"
    /\ IF IsRejection(decision)
       THEN /\ events' = Append(events, DecisionEvent(decision, "User"))
            /\ result' = Some(ErrRejected("rejected by user"))
            /\ opc' = "returned"
            /\ UNCHANGED already_approved
       ELSE /\ events' = events \o <<DecisionEvent(decision, "User"), FirstAttempt>>
            /\ already_approved' = TRUE
            /\ opc' = "first_attempt"
            /\ UNCHANGED result
    /\ OrchFixed

\* orchestrator.rs 132-228: tool.run returns from the first attempt.
FirstAttemptReturns(r) ==
    /\ opc = "first_attempt"
    /\ IF ~IsSandboxDenied(r)
       THEN /\ events' = Append(events, ReturnEvent(r))
            /\ result' = Some(r)
            /\ opc' = "returned"
       ELSE IF ~RetryGate(tool.escalate_on_failure, approval_policy)
       THEN /\ events' = Append(events, ReturnEvent(r))
            /\ result' = Some(ErrSandboxDenied(r.err.detail))
            /\ opc' = "returned"
       ELSE IF ~should_bypass_approval(approval_policy, already_approved)
       THEN /\ events' = events \o
                  <<ReturnEvent(r),
                    PromptEvent(Some(build_denial_reason_from_output(r.err.detail)))>>
            /\ opc' = "retry_prompt"
            /\ UNCHANGED result
       ELSE /\ events' = events \o <<ReturnEvent(r), EscalatedAttempt>>
            /\ opc' = "second_attempt"
            /\ UNCHANGED result
    /\ UNCHANGED already_approved
    /\ OrchFixed

\* Mutant: the escalated attempt starts before the answer is looked at.
RetryDecisionAttemptsFirst(decision) ==
    /\ opc = "retry_prompt"
    /\ IF IsRejection(decision)
       THEN /\ events' = events \o <<EscalatedAttempt, DecisionEvent(decision, "User")>>
            /\ result' = Some(ErrRejected("rejected by user"))
            /\ opc' = "returned"
       ELSE /\ events' = events \o <<EscalatedAttempt, DecisionEvent(decision, "User")>>
            /\ opc' = "second_attempt"
            /\ UNCHANGED result
    /\ UNCHANGED already_approved
    /\ OrchFixed

\* orchestrator.rs 173-211: the answer to the retry prompt.
RetryDecision(decision) ==
    /\ opc = "retry_prompt"
    /\ IF IsRejection(decision)
       THEN /\ events' = Append(events, DecisionEvent(decision, "User"))
            /\ result' = Some(ErrRejected("rejected by user"))
            /\ opc' = "returned"
       ELSE /\ events' = events \o <<DecisionEvent(decision, "User"), EscalatedAttempt>>
            /\ opc' = "second_attempt"
            /\ UNCHANGED result
    /\ UNCHANGED already_approved
    /\ OrchFixed

\* orchestrator.rs 211-225: tool.run returns from the second attempt.
SecondAttemptReturns(r) ==
    /\ opc = "second_attempt"
    /\ events' = Append(events, ReturnEvent(r))
    /\ result' = Some(r)
    /\ opc' = "returned"
    /\ UNCHANGED already_approved
    /\ OrchFixed

OrchNext ==
    \/ StartSkip
    \/ StartForbidden
    \/ StartNeedsApproval
    \/ \E d \in Decisions : InitialDecision(d)
    \/ \E r \in RunResults : FirstAttemptReturns(r)
    \/ \E d \in Decisions : RetryDecision(d)
    \/ \E r \in RunResults : SecondAttemptReturns(r)

\* ------------------------------------------------------------------ reading the event log

EventsOf(kind) == {i \in 1..Len(events) : events[i].kind = kind}
PromptCount == Cardinality(EventsOf("prompt"))
AttemptCount == Cardinality(EventsOf("attempt"))
Returned == opc = "returned"

\* The first attempt has returned, and what it returned.
FirstReturn == CHOOSE i \in EventsOf("attempt_returned") :
                   \A j \in EventsOf("attempt_returned") : i <= j
FirstAttemptDenied ==
    /\ EventsOf("attempt_returned") # {}
    /\ IsSandboxDenied(events[FirstReturn].result)

\* The gate as the claims word it.
GateOpen == tool.escalate_on_failure /\ approval_policy \notin {"Never", "OnRequest"}

RetryReason == Some("command failed; retry without sandbox?")

\* ------------------------------------------------------------------ C2

\* C2 (as stated): within one run the approval prompt fires at most twice, and
\* never when the requirement is Skip.
C2_NoPromptOnSkip ==
    /\ PromptCount <= 2
    /\ requirement.kind = "Skip" => PromptCount = 0

\* C2 (amended): the prompt fires at most twice; when the requirement is Skip the
\* initial prompt never fires, and the only prompt there can be is the one retry
\* prompt that follows a sandbox-denied first attempt that passed the retry gate.
C2_PromptBound ==
    /\ PromptCount <= 2
    /\ requirement.kind = "Skip" =>
           /\ PromptCount <= 1
           /\ \A p \in EventsOf("prompt") :
                  /\ FirstAttemptDenied /\ GateOpen
                  /\ p = FirstReturn + 1
                  /\ events[p].retry_reason = RetryReason
           /\ (EventsOf("attempt_returned") # {} /\ ~FirstAttemptDenied) => PromptCount = 0

C2_Witness ==
    /\ Returned /\ requirement.kind = "Skip"
    /\ PromptCount = 1 /\ AttemptCount = 2

\* ------------------------------------------------------------------ C3

RejectingDecisions ==
    {i \in EventsOf("tool_decision") : events[i].decision \in {"Denied", "Abort"}}

\* C3: no attempt starts after a rejecting decision. Forbidden returns
\* Rejected(reason) with no prompt and no attempt; a Denied or Abort answer to
\* the initial prompt returns Rejected("rejected by user") with no attempt; a
\* Denied or Abort answer to the retry prompt returns the same after the one
\* attempt made.
C3_NoAttemptAfterRejection ==
    /\ requirement.kind = "Forbidden" =>
           /\ PromptCount = 0 /\ AttemptCount = 0
           /\ Returned => result = Some(ErrRejected(Unwrap(requirement.reason)))
    /\ \A i \in RejectingDecisions :
           /\ i = Len(events) /\ events[i - 1].kind = "prompt"
           /\ Returned /\ result = Some(ErrRejected("rejected by user"))
           /\ AttemptCount = (IF events[i - 1].retry_reason = RetryReason /\ i > 2
                              THEN 1 ELSE 0)
    /\ (opc \in {"first_attempt", "second_attempt"}) => RejectingDecisions = {}

C3_Witness ==
    /\ Returned /\ RejectingDecisions # {}
    /\ AttemptCount = 1 /\ PromptCount = 1
    /\ events[Len(events)].decision = "Abort"

\* ------------------------------------------------------------------ C5

\* C5: after a first attempt that returned SandboxErr::Denied, the retry branch
\* (a retry prompt or a second attempt) is entered exactly when the tool
\* escalates on failure and the policy permits an unsandboxed retry; otherwise
\* the Denied error with its output is returned and nothing else happens.
C5_RetryGate ==
    FirstAttemptDenied =>
        /\ GateOpen <=> /\ Len(events) > FirstReturn
                        /\ events[FirstReturn + 1].kind \in {"prompt", "attempt"}
        /\ ~GateOpen => /\ Returned
                        /\ result = Some(events[FirstReturn].result)
                        /\ Len(events) = FirstReturn
                        /\ AttemptCount = 1

C5_Witness ==
    /\ Returned /\ FirstAttemptDenied /\ GateOpen
    /\ AttemptCount = 2

\* ------------------------------------------------------------------ C6

InitiallyApproved ==
    /\ Len(events) >= 2
    /\ events[1].kind = "prompt" /\ events[2].kind = "tool_decision"
    /\ events[2].decision \notin {"Denied", "Abort"}

\* C6: once the initial prompt has been answered with an approval, a
\* sandbox-denied first attempt that passes the retry gate goes on to the
\* unsandboxed second attempt with no second prompt.
C6_NoSecondPrompt ==
    (InitiallyApproved /\ FirstAttemptDenied /\ GateOpen) =>
        /\ already_approved
        /\ PromptCount = 1
        /\ Len(events) > FirstReturn
        /\ events[FirstReturn + 1] = AttemptEvent("None", None)

C6_Witness ==
    /\ Returned /\ InitiallyApproved /\ FirstAttemptDenied /\ GateOpen
    /\ AttemptCount = 2 /\ PromptCount = 1

\* ------------------------------------------------------------------ C12

ApprovingDecisions == {"Approved", "ApprovedExecpolicyAmendment", "ApprovedForSession"}

\* The event at index i, when the log is that long, is an approving decision.
ApprovedAt(i) ==
    /\ Len(events) >= i
    /\ events[i].kind = "tool_decision" /\ events[i].decision \in ApprovingDecisions

\* C12: for a tool that escalates on failure under a policy that permits an
\* unsandboxed retry, in a call not approved before, a first attempt that returns
\* SandboxDenied is followed by exactly one prompt, whose retry reason is
\* "command failed; retry without sandbox?"; an approval starts a second attempt
\* with sandbox None, and what that attempt returns is the result of the call.
C12_DeniedRetryPromptsOnce ==
    (GateOpen /\ ~already_approved /\ FirstAttemptDenied) =>
        /\ PromptCount = 1
        /\ events[FirstReturn + 1] = PromptEvent(RetryReason)
        /\ ApprovedAt(FirstReturn + 2) =>
               /\ Len(events) >= FirstReturn + 3
               /\ events[FirstReturn + 3].kind = "attempt"
               /\ events[FirstReturn + 3].sandbox = "None"
               /\ Returned =>
                      /\ Len(events) = FirstReturn + 4
                      /\ events[FirstReturn + 4].kind = "attempt_returned"
                      /\ result = Some(events[FirstReturn + 4].result)

C12_Witness ==
    /\ GateOpen /\ ~already_approved /\ FirstAttemptDenied
    /\ ApprovedAt(FirstReturn + 2)
    /\ Returned /\ result = Some(ErrCodex("Timeout"))

\* ------------------------------------------------------------------ C13

\* The first attempt has returned something other than Sandbox(Denied).
FirstOutcomeOther ==
    /\ EventsOf("attempt_returned") # {}
    /\ LET r == events[FirstReturn].result IN r.ok \/ r.err.kind # "SandboxDenied"

\* C13: a first attempt that returns Ok, or any error other than
\* SandboxErr::Denied, ends the run with that outcome unchanged: no retry prompt
\* and no second attempt follow. Two attempts are seen only after a denial.
C13_OnlyDeniedRetries ==
    /\ FirstOutcomeOther =>
           /\ Returned
           /\ result = Some(events[FirstReturn].result)
           /\ Len(events) = FirstReturn
           /\ AttemptCount = 1
           /\ \A p \in EventsOf("prompt") : p < FirstReturn
    /\ AttemptCount = 2 =>
           LET r == events[FirstReturn].result IN ~r.ok /\ r.err.kind = "SandboxDenied"

C13_Witness ==
    /\ FirstOutcomeOther /\ Returned
    /\ tool.escalate_on_failure /\ approval_policy = "OnFailure"
    /\ result = Some(ErrRejected("rejected by tool"))

\* ------------------------------------------------------------------ C14

FirstAttemptIndex == CHOOSE i \in EventsOf("attempt") : \A j \in EventsOf("attempt") : i <= j
SecondAttempts == {i \in EventsOf("attempt") : i # FirstAttemptIndex}

\* C14: a run makes at most two attempts; the second runs with sandbox None and
\* no linux-sandbox executable; when it has returned, the run has returned with
\* its outcome and nothing (no prompt, no attempt) follows, whatever the outcome.
C14_SecondAttemptIsLast ==
    /\ AttemptCount <= 2
    /\ \A i \in SecondAttempts :
           /\ events[i].sandbox = "None"
           /\ events[i].codex_linux_sandbox_exe = None
           /\ \A p \in EventsOf("prompt") : p < i
    /\ Cardinality(EventsOf("attempt_returned")) = 2 =>
           /\ Returned
           /\ events[Len(events)].kind = "attempt_returned"
           /\ result = Some(events[Len(events)].result)
    /\ Cardinality(EventsOf("attempt_returned")) <= 2

C14_Witness ==
    /\ Returned /\ AttemptCount = 2
    /\ events[FirstAttemptIndex].sandbox = "LinuxSeccomp"
    /\ events[FirstAttemptIndex].codex_linux_sandbox_exe = Some("exe")
    /\ result = Some(ErrSandboxDenied("denied output"))

\* ------------------------------------------------------------------ C15

\* The prompts after the first event are retry prompts.
RetryPrompts == {p \in EventsOf("prompt") : p > 1}

\* C15: when approval is required, an approving decision precedes the first
\* attempt; a retry prompt comes only after a first attempt that returned
\* SandboxDenied; a second attempt that follows a retry prompt comes after an
\* approving answer to that prompt.
C15_EventOrder ==
    /\ (requirement.kind = "NeedsApproval" /\ EventsOf("attempt") # {}) =>
           /\ events[1].kind = "prompt"
           /\ ApprovedAt(2)
           /\ FirstAttemptIndex > 2
    /\ \A p \in RetryPrompts :
           /\ FirstAttemptDenied
           /\ FirstAttemptIndex < FirstReturn /\ FirstReturn < p
    /\ \A p \in RetryPrompts : \A a \in SecondAttempts :
           ApprovedAt(p + 1) /\ p + 1 < a

C15_Witness ==
    /\ Returned /\ RetryPrompts # {} /\ SecondAttempts # {}
    /\ requirement.kind = "Skip"

\* ------------------------------------------------------------------ C24

DecisionsFrom(source) ==
    {i \in EventsOf("tool_decision") : events[i].source = source}

\* The prompts that have been answered: each is followed by what was decided.
AnsweredPrompts == {i \in EventsOf("prompt") : i < Len(events)}

\* One tool_decision with source User per answered prompt, right behind it.
PromptAnswersLogged ==
    /\ \A i \in AnsweredPrompts :
           events[i + 1].kind = "tool_decision" /\ events[i + 1].source = "User"
    /\ Cardinality(DecisionsFrom("User")) = Cardinality(AnsweredPrompts)

\* One tool_decision with source Config once a Skip requirement is decided.
SkipLogged ==
    (requirement.kind = "Skip" /\ opc \notin {"idle", "start"}) =>
        /\ Cardinality(DecisionsFrom("Config")) = 1
        /\ events[1] = DecisionEvent("Approved", "Config")

\* One tool_decision with source Config once a Forbidden requirement is decided.
ForbiddenLogged ==
    (requirement.kind = "Forbidden" /\ opc \notin {"idle", "start"}) =>
        Cardinality(DecisionsFrom("Config")) = 1

\* C24 as stated: every approval decision point of a run (requirement Skip,
\* requirement Forbidden, the answer to the initial prompt, the answer to the
\* retry prompt) emits one tool_decision event, with source Config for the
\* policy-derived decisions and source User for the prompt answers.
C24_EveryDecisionLogged ==
    /\ SkipLogged
    /\ ForbiddenLogged
    /\ PromptAnswersLogged

\* ================================================================== tool router

\* The names session.parse_mcp_tool_name resolves, with their server and tool.
McpTools == [mcp__srv__t |-> [server |-> "srv", tool |-> "t"]]

\* ToolCall { tool_name, call_id, payload }
ToolCallOf(tool_name, call_id, payload) ==
    [tool_name |-> tool_name, call_id |-> call_id, payload |-> payload]

\* Mutant: a LocalShellCall is resolved to its id before its call_id.
build_tool_call_prefers_id(it) ==
    CASE it.type = "FunctionCall" ->
            IF it.name \in DOMAIN McpTools
            THEN [tag |-> "call",
                  call |-> ToolCallOf(it.name, it.call_id,
                                      [kind |-> "Mcp", server |-> McpTools[it.name].server,
                                       tool |-> McpTools[it.name].tool])]
            ELSE [tag |-> "call",
                  call |-> ToolCallOf(it.name, it.call_id, [kind |-> "Function"])]
      [] it.type = "CustomToolCall" ->
            [tag |-> "call", call |-> ToolCallOf(it.name, it.call_id, [kind |-> "Custom"])]
      [] it.type = "LocalShellCall" ->
            IF IsSome(it.id)
            THEN [tag |-> "call",
                  call |-> ToolCallOf("local_shell", Unwrap(it.id), [kind |-> "LocalShell"])]
            ELSE IF IsSome(it.call_id)
            THEN [tag |-> "call",
                  call |-> ToolCallOf("local_shell", Unwrap(it.call_id),
                                      [kind |-> "LocalShell"])]
            ELSE [tag |-> "err", err |-> "MissingLocalShellCallId"]
      [] OTHER -> [tag |-> "none"]

\* router.rs 59-158: Ok(Some(call)), Ok(None) or Err(MissingLocalShellCallId).
build_tool_call(it) ==
    CASE it.type = "FunctionCall" ->
            IF it.name \in DOMAIN McpTools
            THEN [tag |-> "call",
                  call |-> ToolCallOf(it.name, it.call_id,
                                      [kind |-> "Mcp", server |-> McpTools[it.name].server,
                                       tool |-> McpTools[it.name].tool])]
            ELSE [tag |-> "call",
                  call |-> ToolCallOf(it.name, it.call_id, [kind |-> "Function"])]
      [] it.type = "CustomToolCall" ->
            [tag |-> "call", call |-> ToolCallOf(it.name, it.call_id, [kind |-> "Custom"])]
      [] it.type = "LocalShellCall" ->
            IF IsSome(it.call_id)
            THEN [tag |-> "call",
                  call |-> ToolCallOf("local_shell", Unwrap(it.call_id),
                                      [kind |-> "LocalShell"])]
            ELSE IF IsSome(it.id)
            THEN [tag |-> "call",
                  call |-> ToolCallOf("local_shell", Unwrap(it.id), [kind |-> "LocalShell"])]
            ELSE [tag |-> "err", err |-> "MissingLocalShellCallId"]
      [] OTHER -> [tag |-> "none"]

\* ------------------------------------------------------------------ dispatch

\* FunctionCallError, as handle_output_item_done matches it (stream_events_utils.rs 107-161).
RespondToModel(message) == [tag |-> "err", err |-> "RespondToModel", message |-> message]
Fatal(message) == [tag |-> "err", err |-> "Fatal", message |-> message]

\* ResponseInputItem::FunctionCallOutput { call_id, output: FunctionCallOutputPayload }
InputFunctionCallOutput(call_id, content, success) ==
    [type |-> "FunctionCallOutput", call_id |-> call_id,
     output |-> [content |-> content, content_items |-> None, success |-> success]]

\* ResponseInputItem::CustomToolCallOutput { call_id, output: String }
InputCustomToolCallOutput(call_id, output) ==
    [type |-> "CustomToolCallOutput", call_id |-> call_id, output |-> [content |-> output]]

\* FunctionCallError::MissingLocalShellCallId
MissingLocalShellCallId == [tag |-> "err", err |-> "MissingLocalShellCallId"]

\* Display of FunctionCallError (err.to_string() at router.rs 230).
ErrToString(err) ==
    IF err.err = "MissingLocalShellCallId" THEN <<"LocalShellCall without call_id or id">>
    ELSE IF err.err = "Fatal" THEN <<"Fatal error: ">> \o err.message
    ELSE err.message

\* Result<ResponseInputItem, FunctionCallError>
DispatchOk(response) == [ok |-> TRUE, response |-> response]
DispatchErr(err) == [ok |-> FALSE, err |-> err]

\* The calls build_tool_call produces for the tool-call items of the universe.
DispatchCalls ==
    {ToolCallOf(n, c, [kind |-> "Function"]) : n \in {"f", "shell"}, c \in CallIds}
    \cup {ToolCallOf("mcp__srv__t", c, [kind |-> "Mcp", server |-> "srv", tool |-> "t"]) :
              c \in CallIds}
    \cup {ToolCallOf("g", c, [kind |-> "Custom"]) : c \in CallIds}
    \cup {ToolCallOf("local_shell", c, [kind |-> "LocalShell"]) : c \in CallIds}

ErrorTexts == {<<"denied">>, <<"timed out">>, <<"no such tool">>}

\* What registry.dispatch can hand back for a call.
HandlerResults(call) ==
    {DispatchOk(InputFunctionCallOutput(call.call_id, t, Some(b))) :
         t \in {TextA}, b \in BOOLEAN}
    \cup {DispatchOk(InputCustomToolCallOutput(call.call_id, TextA))}
    \cup {DispatchErr(Fatal(t)) : t \in ErrorTexts}
    \cup {DispatchErr(RespondToModel(t)) : t \in ErrorTexts}
    \cup {DispatchErr(MissingLocalShellCallId)}

\* Mutant: every failure is answered with a FunctionCallOutput.
failure_response_function_only(call_id, payload_outputs_custom, err) ==
    InputFunctionCallOutput(call_id, ErrToString(err), Some(FALSE))

\* router.rs 225-246
failure_response(call_id, payload_outputs_custom, err) ==
    IF payload_outputs_custom
    THEN InputCustomToolCallOutput(call_id, ErrToString(err))
    ELSE InputFunctionCallOutput(call_id, ErrToString(err), Some(FALSE))

\* router.rs 168-222: the match on what registry.dispatch returned.
dispatch_tool_call(call, r) ==
    LET payload_outputs_custom == call.payload.kind = "Custom"
        failure_call_id == call.call_id
    IN IF r.ok THEN DispatchOk(r.response)
       ELSE IF r.err.err = "Fatal" THEN DispatchErr(Fatal(r.err.message))
       ELSE DispatchOk(failure_response(failure_call_id, payload_outputs_custom, r.err))

DispatchInit ==
    /\ dispatch_pc = "start"
    /\ dispatch_call \in {Some(c) : c \in DispatchCalls}
    /\ handler_result = None
    /\ dispatch_result = None

\* router.rs 168-191: the invocation is built and registry.dispatch awaited.
DispatchStart ==
    /\ dispatch_pc = "start"
    /\ dispatch_pc' = "awaiting"
    /\ UNCHANGED <<bvars, ovars, rvars, dispatch_call, handler_result, dispatch_result>>

\* router.rs 191-222: registry.dispatch returns and dispatch_tool_call returns.
DispatchReturns(r) ==
    /\ dispatch_pc = "awaiting"
    /\ handler_result' = Some(r)
    /\ dispatch_result' = Some(dispatch_tool_call(Unwrap(dispatch_call), r))
    /\ dispatch_pc' = "returned"
    /\ UNCHANGED <<bvars, ovars, rvars, dispatch_call>>

DispatchNext ==
    \/ DispatchStart
    \/ \E r \in HandlerResults(Unwrap(dispatch_call)) : DispatchReturns(r)

\* ------------------------------------------------------------------ C28

\* The call id the router resolves for a tool-call item (None without one).
RouterCallId(item) ==
    LET c == build_tool_call(item) IN
    IF c.tag = "call" THEN Some(c.call.call_id) ELSE None

\* The tool_calls entry iteration k has just added.
EntryAddedAt(k) ==
    LET last == loop[k].messages[Len(loop[k].messages)] IN
    last.tool_calls[Len(last.tool_calls)]

\* C28 as stated: the id of the tool_calls entry emitted for a tool-call item
\* is the call id the router resolves for the item (LocalShellCall: call_id,
\* else id; CustomToolCall: call_id), which is the id its output carries as
\* tool_call_id.
C28_EntryIdIsCallId ==
    Built =>
        \A k \in 1..Len(input) :
            (IsToolCallItem(input[k]) /\ IsSome(RouterCallId(input[k]))) =>
                EntryAddedAt(k).id = Unwrap(RouterCallId(input[k]))

\* ================================================================== stream reducer

MaxStream == 2

StreamItems ==
    {FunctionCall("f", "c1"), FunctionCall("mcp__srv__t", "c2"),
     CustomToolCall(None, "c1", "g"),
     LocalShellCall(None, None), LocalShellCall(Some("c1"), None),
     LocalShellCall(Some("c1"), Some("c2")),
     MessageWithReasoning("assistant", <<OutputText(TextA)>>, None, None, Some(<<"g">>)),
     Message("assistant", <<OutputText(TextB)>>, None, None),
     Message("user", <<InputText(TextA)>>, None, None),
     Reasoning(Some(<<[type |-> "ReasoningText", text |-> <<"r">>]>>)),
     FunctionCallOutput("c1", TextA, None),
     Inert("Other")}

\* OutputItemResult (stream_events_utils.rs 28-33); tool_future holds the index
\* of the future in futures.
OutputItemResult(last_agent_message, needs_follow_up, tool_future) ==
    [last_agent_message |-> last_agent_message, needs_follow_up |-> needs_follow_up,
     tool_future |-> tool_future]

\* stream_events_utils.rs 261-271: the last OutputText of an assistant Message.
last_assistant_message_from_item(it) ==
    IF it.type = "Message" /\ it.role = "assistant"
    THEN LET outs == {i \in 1..Len(it.content) : it.content[i].type = "OutputText"} IN
         IF outs = {} THEN None
         ELSE Some(it.content[CHOOSE i \in outs : \A j \in outs : j <= i].text)
    ELSE None

\* parse_turn_item: which items become a TurnItem.
parse_turn_item(it) ==
    IF \/ it.type = "Message" /\ it.role \in {"user", "assistant"}
       \/ it.type \in {"Reasoning", "WebSearchCall"}
    THEN Some([turn_item |-> it.type]) ELSE None

\* stream_events_utils.rs 168-259
handle_non_tool_response_item(it) ==
    IF it.type \in {"Message", "Reasoning", "WebSearchCall"} THEN parse_turn_item(it)
    ELSE None

ReducerInit ==
    /\ stream \in SeqsUpTo(StreamItems, MaxStream)
    /\ history = <<>>
    /\ rpc = "idle"
    /\ current = None
    /\ classified = None
    /\ previously_active_item = FALSE
    /\ futures = <<>>
    /\ lifecycle = <<>>
    /\ returned = <<>>
    /\ session_reasoning = None
    /\ cancelled = FALSE

\* stream_events_utils.rs 50-161: the arm of the match that a classification selects.
ArmOf(c) ==
    CASE c.tag = "call" -> "tool_call"
      [] c.tag = "none" -> "non_tool"
      [] c.tag = "err" /\ c.err = "MissingLocalShellCallId" -> "missing_id"
      [] c.tag = "err" /\ c.err = "RespondToModel" -> "respond_to_model"
      [] c.tag = "err" /\ c.err = "Fatal" -> "fatal"

\* stream_events_utils.rs 43-50: the next completed item is handed over and the
\* classification c comes back from build_tool_call.
ClassifyWith(active, c) ==
    /\ rpc = "idle" /\ stream # <<>>
    /\ current' = Some(Head(stream))
    /\ classified' = Some(c)
    /\ stream' = Tail(stream)
    /\ previously_active_item' = active
    /\ rpc' = ArmOf(c)
    /\ UNCHANGED <<bvars, ovars, dvars, history, futures, lifecycle, returned, session_reasoning, cancelled>>

\* stream_events_utils.rs 50 with router.rs 59-158: build_tool_call classifies the item.
Classify(active) ==
    /\ stream # <<>>
    /\ ClassifyWith(active, build_tool_call(Head(stream)))

\* Mutant: a cancelled turn starts its records afresh.
RecordToolCallItemAfterRollback ==
    /\ rpc = "tool_call"
    /\ history' = IF cancelled THEN <<Unwrap(current)>> ELSE Append(history, Unwrap(current))
    /\ rpc' = "tool_call_recorded"
    /\ UNCHANGED <<bvars, ovars, dvars, classified, stream, current, previously_active_item, futures,
                   lifecycle, returned, session_reasoning, cancelled>>

\* Mutant: the tool-call arm goes on to its future without recording the item.
RecordToolCallItemSkipped ==
    /\ rpc = "tool_call"
    /\ rpc' = "tool_call_recorded"
    /\ UNCHANGED <<bvars, ovars, dvars, classified, stream, history, current,
                   previously_active_item, futures, lifecycle, returned, session_reasoning,
                   cancelled>>

\* stream_events_utils.rs 61-63: the tool-call item is recorded.
RecordToolCallItem ==
    /\ rpc = "tool_call"
    /\ history' = Append(history, Unwrap(current))
    /\ rpc' = "tool_call_recorded"
    /\ UNCHANGED <<bvars, ovars, dvars, classified, stream, current, previously_active_item, futures, lifecycle, returned,
                   session_reasoning, cancelled>>

\* Mutant: the future is created before the item is recorded.
QueueToolFutureUnrecorded ==
    /\ rpc = "tool_call"
    /\ futures' = Append(futures, [call |-> build_tool_call(Unwrap(current)).call,
                                   item |-> Unwrap(current),
                                   state |-> "created"])
    /\ returned' = Append(returned, OutputItemResult(None, TRUE, Some(Len(futures) + 1)))
    /\ rpc' = "idle"
    /\ current' = None
    /\ UNCHANGED <<bvars, ovars, dvars, classified, stream, history, previously_active_item, lifecycle,
                   session_reasoning, cancelled>>

\* stream_events_utils.rs 65-73, 165: the future is created over a child token
\* and returned.
QueueToolFuture ==
    /\ rpc = "tool_call_recorded"
    /\ futures' = Append(futures, [call |-> build_tool_call(Unwrap(current)).call,
                                   item |-> Unwrap(current),
                                   state |-> "created"])
    /\ returned' = Append(returned, OutputItemResult(None, TRUE, Some(Len(futures) + 1)))
    /\ rpc' = "idle"
    /\ current' = None
    /\ UNCHANGED <<bvars, ovars, dvars, classified, stream, history, previously_active_item, lifecycle,
                   session_reasoning, cancelled>>

\* Mutant: turn_item_started is emitted whether or not an item was active.
EmitNonToolAlwaysStarted ==
    /\ rpc = "non_tool"
    /\ LET it == Unwrap(current)
           turn_item == handle_non_tool_response_item(it)
       IN /\ session_reasoning' =
                 IF it.type = "Message" /\ it.role = "assistant"
                    /\ IsSome(it.reasoning_content)
                 THEN it.reasoning_content ELSE session_reasoning
          /\ lifecycle' =
                 IF IsSome(turn_item)
                 THEN lifecycle \o <<[event |-> "turn_item_started", about |-> it],
                                     [event |-> "turn_item_completed", about |-> it]>>
                 ELSE lifecycle
    /\ rpc' = "non_tool_emitted"
    /\ UNCHANGED <<bvars, ovars, dvars, classified, stream, history, current,
                   previously_active_item, futures, returned, cancelled>>

\* stream_events_utils.rs 76-97: reasoning_content is stored and the lifecycle
\* events are emitted.
EmitNonTool ==
    /\ rpc = "non_tool"
    /\ LET it == Unwrap(current)
           turn_item == handle_non_tool_response_item(it)
       IN /\ session_reasoning' =
                 IF it.type = "Message" /\ it.role = "assistant"
                    /\ IsSome(it.reasoning_content)
                 THEN it.reasoning_content ELSE session_reasoning
          /\ lifecycle' =
                 IF IsSome(turn_item)
                 THEN lifecycle
                      \o (IF ~previously_active_item
                          THEN <<[event |-> "turn_item_started", about |-> it]>>
                          ELSE <<>>)
                      \o <<[event |-> "turn_item_completed", about |-> it]>>
                 ELSE lifecycle
    /\ rpc' = "non_tool_emitted"
    /\ UNCHANGED <<bvars, ovars, dvars, classified, stream, history, current, previously_active_item, futures, returned,
                   cancelled>>

\* Mutant: the result is returned without the item being recorded.
RecordNonToolUnrecorded ==
    /\ rpc = "non_tool_emitted"
    /\ returned' = Append(returned,
                          OutputItemResult(last_assistant_message_from_item(Unwrap(current)),
                                           FALSE, None))
    /\ rpc' = "idle"
    /\ current' = None
    /\ UNCHANGED <<bvars, ovars, dvars, classified, stream, history, previously_active_item, futures,
                   lifecycle, session_reasoning, cancelled>>

\* stream_events_utils.rs 99-104, 165: the item is recorded and the result returned.
RecordNonTool ==
    /\ rpc = "non_tool_emitted"
    /\ history' = Append(history, Unwrap(current))
    /\ returned' = Append(returned,
                          OutputItemResult(last_assistant_message_from_item(Unwrap(current)),
                                           FALSE, None))
    /\ rpc' = "idle"
    /\ current' = None
    /\ UNCHANGED <<bvars, ovars, dvars, classified, stream, previously_active_item, futures, lifecycle,
                   session_reasoning, cancelled>>

\* Mutant: the item without ids is not recorded.
RecordMissingIdItemSkipped ==
    /\ rpc = "missing_id"
    /\ lifecycle' = Append(lifecycle, [event |-> "tool_failed", about |-> Unwrap(current)])
    /\ rpc' = "missing_id_recorded"
    /\ UNCHANGED <<bvars, ovars, dvars, classified, stream, history, current, previously_active_item,
                   futures, returned, session_reasoning, cancelled>>

\* stream_events_utils.rs 107-124: tool_failed is logged and the item recorded.
RecordMissingIdItem ==
    /\ rpc = "missing_id"
    /\ lifecycle' = Append(lifecycle, [event |-> "tool_failed", about |-> Unwrap(current)])
    /\ history' = Append(history, Unwrap(current))
    /\ rpc' = "missing_id_recorded"
    /\ UNCHANGED <<bvars, ovars, dvars, classified, stream, current, previously_active_item, futures, returned,
                   session_reasoning, cancelled>>

\* Mutant: the recovery from a LocalShellCall without ids asks for no follow-up.
RecordMissingIdResponseNoFollowUp ==
    /\ rpc = "missing_id_recorded"
    /\ history' = Append(history, MissingIdResponse)
    /\ returned' = Append(returned, OutputItemResult(None, FALSE, None))
    /\ rpc' = "idle"
    /\ current' = None
    /\ UNCHANGED <<bvars, ovars, dvars, classified, stream, previously_active_item, futures,
                   lifecycle, session_reasoning, cancelled>>

\* stream_events_utils.rs 125-134, 165: the synthesized output is recorded.
RecordMissingIdResponse ==
    /\ rpc = "missing_id_recorded"
    /\ history' = Append(history, MissingIdResponse)
    /\ returned' = Append(returned, OutputItemResult(None, TRUE, None))
    /\ rpc' = "idle"
    /\ current' = None
    /\ UNCHANGED <<bvars, ovars, dvars, classified, stream, previously_active_item, futures, lifecycle,
                   session_reasoning, cancelled>>

\* stream_events_utils.rs 137-147: the item answered by RespondToModel is recorded.
RecordRespondItem ==
    /\ rpc = "respond_to_model"
    /\ history' = Append(history, Unwrap(current))
    /\ rpc' = "respond_recorded"
    /\ UNCHANGED <<bvars, ovars, dvars, classified, stream, current, previously_active_item, futures,
                   lifecycle, returned, session_reasoning, cancelled>>

\* stream_events_utils.rs 138-144: the output that carries the message.
RespondResponse(message) == FunctionCallOutput("", message, None)

\* stream_events_utils.rs 148-157, 165: the synthesized output is recorded.
RecordRespondResponse ==
    /\ rpc = "respond_recorded"
    /\ history' = Append(history, RespondResponse(Unwrap(classified).message))
    /\ returned' = Append(returned, OutputItemResult(None, TRUE, None))
    /\ rpc' = "idle"
    /\ current' = None
    /\ UNCHANGED <<bvars, ovars, dvars, classified, stream, previously_active_item, futures, lifecycle,
                   session_reasoning, cancelled>>

\* Mutant: the item is recorded before the fatal error is returned.
ReturnFatalRecorded ==
    /\ rpc = "fatal"
    /\ history' = Append(history, Unwrap(current))
    /\ returned' = Append(returned, [fatal |-> Unwrap(classified).message])
    /\ rpc' = "aborted"
    /\ current' = None
    /\ UNCHANGED <<bvars, ovars, dvars, classified, stream, previously_active_item, futures,
                   lifecycle, session_reasoning, cancelled>>

\* stream_events_utils.rs 159-161: Err(CodexErr::Fatal(message)) is returned.
ReturnFatal ==
    /\ rpc = "fatal"
    /\ returned' = Append(returned, [fatal |-> Unwrap(classified).message])
    /\ rpc' = "aborted"
    /\ current' = None
    /\ UNCHANGED <<bvars, ovars, dvars, classified, stream, history, previously_active_item, futures,
                   lifecycle, session_reasoning, cancelled>>

\* The caller polls a future it was handed: the tool call starts running.
FutureStarts(f) ==
    /\ futures[f].state = "created" /\ ~cancelled
    /\ futures' = [futures EXCEPT ![f].state = "running"]
    /\ UNCHANGED <<bvars, ovars, dvars, classified, stream, history, rpc, current, previously_active_item, lifecycle,
                   returned, session_reasoning, cancelled>>

\* The tool call of a running future finishes.
FutureCompletes(f) ==
    /\ futures[f].state = "running"
    /\ futures' = [futures EXCEPT ![f].state = "done"]
    /\ UNCHANGED <<bvars, ovars, dvars, classified, stream, history, rpc, current, previously_active_item, lifecycle,
                   returned, session_reasoning, cancelled>>

\* A future sees its child token cancelled and gives up.
FutureAborts(f) ==
    /\ futures[f].state \in {"created", "running"} /\ cancelled
    /\ futures' = [futures EXCEPT ![f].state = "aborted"]
    /\ UNCHANGED <<bvars, ovars, dvars, classified, stream, history, rpc, current, previously_active_item, lifecycle,
                   returned, session_reasoning, cancelled>>

\* The turn's cancellation token is cancelled.
CancelTurn ==
    /\ ~cancelled
    /\ cancelled' = TRUE
    /\ UNCHANGED <<bvars, ovars, dvars, classified, stream, history, rpc, current, previously_active_item, futures,
                   lifecycle, returned, session_reasoning>>

\* The output a completed tool call hands back: it names the call's call_id.
ToolOutputOf(call) ==
    IF call.payload.kind = "Custom"
    THEN CustomToolCallOutput(call.call_id, <<"o">>)
    ELSE FunctionCallOutput(call.call_id, <<"o">>, None)

\* The caller records the output of a future that has completed.
RecordToolOutput(f) ==
    /\ futures[f].state = "done"
    /\ history' = Append(history, ToolOutputOf(futures[f].call))
    /\ futures' = [futures EXCEPT ![f].state = "recorded"]
    /\ UNCHANGED <<bvars, ovars, dvars, classified, stream, rpc, current,
                   previously_active_item, lifecycle, returned, session_reasoning, cancelled>>

\* One turn: the handler over the stream, the futures it returned running side
\* by side, and their outputs recorded as they complete.
TurnNext ==
    \/ \E active \in BOOLEAN : Classify(active)
    \/ RecordToolCallItem
    \/ QueueToolFuture
    \/ EmitNonTool
    \/ RecordNonTool
    \/ RecordMissingIdItem
    \/ RecordMissingIdResponse
    \/ \E f \in 1..Len(futures) : FutureStarts(f)
    \/ \E f \in 1..Len(futures) : FutureCompletes(f)
    \/ \E f \in 1..Len(futures) : RecordToolOutput(f)

ReducerNext ==
    \/ \E active \in BOOLEAN : Classify(active)
    \/ RecordToolCallItem
    \/ QueueToolFuture
    \/ EmitNonTool
    \/ RecordNonTool
    \/ RecordMissingIdItem
    \/ RecordMissingIdResponse
    \/ \E f \in 1..Len(futures) : FutureStarts(f)
    \/ \E f \in 1..Len(futures) : FutureCompletes(f)
    \/ \E f \in 1..Len(futures) : FutureAborts(f)
    \/ CancelTurn

\* What build_tool_call's signature admits for an item: what the router returns
\* for it, or one of the other errors of FunctionCallError.
Classifications(it) ==
    {build_tool_call(it), RespondToModel(<<"denied">>), Fatal(<<"fatal">>)}

\* stream_events_utils.rs 50: the match scrutinee taken from the whole result type.
ClassifyAny(active) ==
    /\ stream # <<>>
    /\ \E c \in Classifications(Head(stream)) : ClassifyWith(active, c)

\* handle_output_item_done over every arm of its match.
HandleNext ==
    \/ \E active \in BOOLEAN : ClassifyAny(active)
    \/ RecordToolCallItem
    \/ QueueToolFuture
    \/ EmitNonTool
    \/ RecordNonTool
    \/ RecordMissingIdItem
    \/ RecordMissingIdResponse
    \/ RecordRespondItem
    \/ RecordRespondResponse
    \/ ReturnFatal

\* ------------------------------------------------------------------ C4

IsRecordedToolCall(it) == build_tool_call(it).tag = "call"
ToolCallsRecorded == SelectSeq(history, IsRecordedToolCall)

\* C4: a tool future exists (created, running or finished) only for an item
\* already appended to the history: the f-th future belongs to the f-th
\* tool-call item recorded, the item under classification has no future before
\* its append, and each future was handed back in a result with
\* needs_follow_up = true that carries it.
C4_RecordBeforeFuture ==
    /\ Len(futures) <= Len(ToolCallsRecorded)
    /\ \A f \in 1..Len(futures) :
           /\ futures[f].item = ToolCallsRecorded[f]
           /\ \E r \in 1..Len(returned) :
                  /\ returned[r].needs_follow_up
                  /\ returned[r].tool_future = Some(f)
                  /\ returned[r].last_agent_message = None
    /\ rpc = "tool_call" => Len(futures) = Len(ToolCallsRecorded)
    /\ rpc = "tool_call_recorded" =>
           /\ Len(ToolCallsRecorded) = Len(futures) + 1
           /\ history[Len(history)] = Unwrap(current)
    /\ rpc = "idle" => Len(futures) = Len(ToolCallsRecorded)

C4_Witness ==
    /\ Len(futures) = 2
    /\ futures[1].state = "done" /\ futures[2].state = "running"
    /\ ToolCallsRecorded = <<futures[1].item, futures[2].item>>
    /\ returned[2].needs_follow_up /\ returned[2].tool_future = Some(2)

\* ------------------------------------------------------------------ C16

RecoverableArms == {"missing_id", "respond_to_model"}
RecoverableRecorded == {"missing_id_recorded", "respond_recorded"}

\* The text of the recoverable error under handling.
ErrorText ==
    IF Unwrap(classified).err = "MissingLocalShellCallId"
    THEN <<"LocalShellCall without call_id or id">>
    ELSE Unwrap(classified).message

\* C16: on MissingLocalShellCallId and on RespondToModel(message) the handler
\* first appends the original item to the history, then appends a
\* FunctionCallOutput with call_id "" whose content is the error text, and
\* returns needs_follow_up = true with no tool future and no agent message.
C16_RecoverableErrorsRecorded ==
    [][/\ rpc \in RecoverableArms =>
              /\ history' = Append(history, Unwrap(current))
              /\ rpc' \in RecoverableRecorded
              /\ UNCHANGED <<returned, futures>>
       /\ rpc \in RecoverableRecorded =>
              /\ history' = Append(history, FunctionCallOutput("", ErrorText, None))
              /\ returned' = Append(returned,
                                    [last_agent_message |-> None, needs_follow_up |-> TRUE,
                                     tool_future |-> None])
              /\ rpc' = "idle"
              /\ UNCHANGED futures]_vars

C16_Witness ==
    /\ rpc = "idle" /\ Len(history) = 4 /\ Len(returned) = 2
    /\ history[1] = LocalShellCall(None, None)
    /\ history[2] = FunctionCallOutput("", <<"LocalShellCall without call_id or id">>, None)
    /\ history[4] = FunctionCallOutput("", <<"denied">>, None)
    /\ classified = Some(RespondToModel(<<"denied">>))
    /\ returned[1].needs_follow_up /\ returned[2].needs_follow_up

\* ------------------------------------------------------------------ C17

\* The outputs the handler synthesizes carry the call id "".
IsSynthesized(it) == it.type = "FunctionCallOutput" /\ it.call_id = ""

IsStreamItem(it) == ~IsSynthesized(it)

\* The stream items in the history, in history order.
StreamRecorded == SelectSeq(history, IsStreamItem)

\* The item handed to the handler and not yet appended.
Unrecorded ==
    IF rpc \in {"tool_call", "non_tool", "non_tool_emitted", "missing_id",
                "respond_to_model", "fatal"}
    THEN <<Unwrap(current)>> ELSE <<>>

\* What the stream delivered and has still to deliver.
WholeStream == StreamRecorded \o Unrecorded \o stream

NonFatalReturns == {r \in 1..Len(returned) : "fatal" \notin DOMAIN returned[r]}

\* C17: an item is taken from the stream only when the handler is idle, all
\* items taken before (but those that ended in Fatal) being in the history; an
\* item that ends in Fatal is dropped and every other item moves from the
\* stream into the history once, in stream order.
C17_RecordedInStreamOrder ==
    [][/\ stream' # stream =>
              /\ rpc = "idle" /\ Unrecorded = <<>>
              /\ Len(StreamRecorded) = Cardinality(NonFatalReturns)
       /\ IF rpc = "fatal"
          THEN history' = history /\ WholeStream' = StreamRecorded \o stream
          ELSE WholeStream' = WholeStream]_vars

C17_Witness ==
    /\ rpc = "idle" /\ stream = <<>>
    /\ Len(StreamRecorded) = 2 /\ StreamRecorded[1] # StreamRecorded[2]
    /\ StreamRecorded[1].type = "LocalShellCall" /\ StreamRecorded[2].type = "Message"
    /\ Len(history) = 4

\* ------------------------------------------------------------------ C18

\* C18: the history only grows by appends, whatever the state of the
\* cancellation token and of the futures; cancelling the token and a future
\* giving up leave the history as it is.
C18_HistoryAppendOnly ==
    [][/\ Len(history') >= Len(history)
       /\ SubSeq(history', 1, Len(history)) = history
       /\ (cancelled' # cancelled \/ futures' # futures) => history' = history]_vars

C18_Witness ==
    /\ cancelled /\ Len(futures) = 1 /\ futures[1].state = "aborted"
    /\ Len(history) = 2 /\ history[1] = futures[1].item
    /\ rpc = "idle"

\* ------------------------------------------------------------------ C22

\* C22: the classification of the item under handling. A FunctionCall gives a
\* call with the item's name and call_id, with an Mcp payload when the name is
\* an MCP tool and a Function payload otherwise; a CustomToolCall gives a Custom
\* call with the item's call_id; a LocalShellCall gives a "local_shell" call
\* whose call id is call_id if present, else id, and MissingLocalShellCallId
\* exactly when both are absent; every other item gives None.
C22_Classification ==
    (IsSome(current) /\ IsSome(classified)) =>
        LET it == Unwrap(current)
            c == Unwrap(classified)
        IN CASE it.type = "FunctionCall" ->
                    /\ c.tag = "call"
                    /\ c.call.tool_name = it.name /\ c.call.call_id = it.call_id
                    /\ IF it.name = "mcp__srv__t"
                       THEN c.call.payload = [kind |-> "Mcp", server |-> "srv", tool |-> "t"]
                       ELSE c.call.payload.kind = "Function"
             [] it.type = "CustomToolCall" ->
                    /\ c.tag = "call"
                    /\ c.call.tool_name = it.name /\ c.call.call_id = it.call_id
                    /\ c.call.payload.kind = "Custom"
             [] it.type = "LocalShellCall" ->
                    IF it.call_id = None /\ it.id = None
                    THEN c.tag = "err" /\ c.err = "MissingLocalShellCallId"
                    ELSE /\ c.tag = "call"
                         /\ c.call.tool_name = "local_shell"
                         /\ c.call.payload.kind = "LocalShell"
                         /\ c.call.call_id = IF it.call_id # None THEN it.call_id[1]
                                             ELSE it.id[1]
             [] OTHER -> c.tag = "none"

C22_Witness ==
    /\ rpc = "tool_call" /\ IsSome(current)
    /\ Unwrap(current) = LocalShellCall(Some("c1"), Some("c2"))
    /\ Unwrap(classified).call.call_id = "c2"

\* ------------------------------------------------------------------ C23

DispatchReturned == dispatch_pc = "returned"
HandlerFailed == DispatchReturned /\ ~Unwrap(handler_result).ok
HandlerError == Unwrap(handler_result).err
DispatchedCall == Unwrap(dispatch_call)
DispatchResult == Unwrap(dispatch_result)

\* Err comes back only for a Fatal handler error, and is that error.
FatalPropagates ==
    DispatchReturned =>
        /\ ~DispatchResult.ok <=> (HandlerFailed /\ HandlerError.err = "Fatal")
        /\ ~DispatchResult.ok => DispatchResult.err = HandlerError

\* The failure output names the call and carries the error's text.
FailureOutputNamesCall ==
    (HandlerFailed /\ HandlerError.err # "Fatal") =>
        /\ DispatchResult.ok
        /\ DispatchResult.response.call_id = DispatchedCall.call_id
        /\ DispatchResult.response.output.content = ErrToString(HandlerError)
        /\ DispatchResult.response.type =
               IF DispatchedCall.payload.kind = "Custom"
               THEN "CustomToolCallOutput" ELSE "FunctionCallOutput"

CarriesSuccessFalse(response) ==
    /\ "success" \in DOMAIN response.output
    /\ response.output.success = Some(FALSE)

\* C23 as stated: dispatch_tool_call returns Err only for a Fatal handler error,
\* propagated unchanged; every other handler error becomes an Ok failure output
\* with the call's call_id, the stringified error and success: false, a
\* CustomToolCallOutput for a Custom payload and a FunctionCallOutput otherwise.
C23_FailureOutputSuccessFalse ==
    /\ FatalPropagates
    /\ FailureOutputNamesCall
    /\ (HandlerFailed /\ HandlerError.err # "Fatal") =>
           CarriesSuccessFalse(DispatchResult.response)

\* C23, amended: as above, but success: false is carried by the
\* FunctionCallOutput only; the CustomToolCallOutput of a Custom payload holds
\* nothing but the call_id and the stringified error.
C23_FailureOutput ==
    /\ FatalPropagates
    /\ FailureOutputNamesCall
    /\ (HandlerFailed /\ HandlerError.err # "Fatal") =>
           IF DispatchedCall.payload.kind = "Custom"
           THEN DOMAIN DispatchResult.response = {"type", "call_id", "output"}
                /\ DOMAIN DispatchResult.response.output = {"content"}
           ELSE CarriesSuccessFalse(DispatchResult.response)

C23_Witness ==
    /\ HandlerFailed
    /\ HandlerError.err = "RespondToModel"
    /\ DispatchedCall.payload.kind = "Custom"
    /\ DispatchResult.ok
    /\ DispatchResult.response.type = "CustomToolCallOutput"

\* ------------------------------------------------------------------ C34

\* handle_output_item_done returns in this step.
Returns == Len(returned') = Len(returned) + 1
ReturnedNow == returned'[Len(returned')]
IsFatalReturn(out) == "fatal" \in DOMAIN out

IsRecoverable(c) ==
    c.tag = "err" /\ c.err \in {"MissingLocalShellCallId", "RespondToModel"}

ResultAsClassified ==
    Returns =>
        LET c == classified[1]
            it == current[1]
            out == ReturnedNow
        IN IF IsFatalReturn(out) THEN c.tag = "err" /\ c.err = "Fatal"
           ELSE /\ out.tool_future # None <=> c.tag = "call"
                /\ out.tool_future # None =>
                       /\ Len(futures') = Len(futures) + 1
                       /\ out.tool_future = Some(Len(futures'))
                /\ out.needs_follow_up <=> (c.tag = "call" \/ IsRecoverable(c))
                /\ c.tag = "none" =>
                       /\ ~out.needs_follow_up /\ out.tool_future = None
                       /\ out.last_agent_message # None =>
                              it.type = "Message" /\ it.role = "assistant"
                /\ c.tag # "none" => out.last_agent_message = None

\* C34: whenever handle_output_item_done returns a result, it holds a tool
\* future exactly when the item was classified as a tool call, needs_follow_up
\* is true exactly for a tool call or a recoverable classification error
\* (MissingLocalShellCallId, RespondToModel), and for a non-tool item there is
\* no follow-up, no future, and a last_agent_message only for an assistant
\* Message.
C34_ResultAsClassified == [][ResultAsClassified]_vars

C34_Witness ==
    /\ Len(returned) = 2 /\ rpc = "idle"
    /\ ~IsFatalReturn(returned[1]) /\ returned[1].tool_future = Some(1)
    /\ ~IsFatalReturn(returned[2])
    /\ returned[2].needs_follow_up /\ returned[2].tool_future = None
    /\ classified # None /\ classified[1].tag = "err"
    /\ classified[1].err = "MissingLocalShellCallId"

\* ------------------------------------------------------------------ C35

\* The non-tool arm emits its events in this step, and records in that one.
NonToolEmits == rpc = "non_tool" /\ rpc' = "non_tool_emitted"
NonToolRecords == rpc = "non_tool_emitted" /\ rpc' = "idle"

\* The events the claim describes for the item being handled.
EventsFor(it, active) ==
    (IF active THEN <<>> ELSE <<[event |-> "turn_item_started", about |-> it]>>)
    \o <<[event |-> "turn_item_completed", about |-> it]>>

\* The items that translate to a TurnItem.
BecomesTurnItem(it) ==
    \/ it.type = "Message" /\ it.role \in {"user", "assistant"}
    \/ it.type \in {"Reasoning", "WebSearchCall"}

RecordsCurrent ==
    NonToolRecords =>
        /\ history' = Append(history, current[1])
        /\ lifecycle' = lifecycle

LifecycleForEveryNonTool ==
    /\ NonToolEmits =>
           lifecycle' = lifecycle \o EventsFor(current[1], previously_active_item)
    /\ RecordsCurrent

LifecycleForTurnItems ==
    /\ NonToolEmits =>
           lifecycle' = IF BecomesTurnItem(current[1])
                        THEN lifecycle \o EventsFor(current[1], previously_active_item)
                        ELSE lifecycle
    /\ RecordsCurrent

\* C35 as stated: for every completed item that is not a tool call,
\* turn_item_completed is emitted, with turn_item_started before it exactly
\* when there was no previously active item, and the item is then recorded.
C35_LifecycleAlways == [][LifecycleForEveryNonTool]_vars

\* C35, amended: the two events are emitted that way for a non-tool item that
\* translates to a TurnItem; an item that does not (a tool output that arrives
\* from the stream, an item of another kind) emits no lifecycle event; in both
\* cases the item is then recorded to history.
C35_LifecycleForTurnItems == [][LifecycleForTurnItems]_vars

\* A message handled with no item active and a tool output handled silently.
C35_Witness ==
    /\ rpc = "idle" /\ Len(history) = 2
    /\ history[1].type = "Message" /\ history[2].type = "FunctionCallOutput"
    /\ lifecycle = <<[event |-> "turn_item_started", about |-> history[1]],
                     [event |-> "turn_item_completed", about |-> history[1]]>>

\* ------------------------------------------------------------------ C36

\* The positions at which the history holds a given item.
PositionsOf(it) == {i \in 1..Len(history) : history[i] = it}

RecordedFutures == {f \in 1..Len(futures) : futures[f].state = "recorded"}

\* An output recorded by a tool future, as opposed to one the stream delivered.
IsFutureOutput(it) == IsOutputItem(it) /\ it.output.content = <<"o">>

\* The call id under which the tool-call item at a history position was dispatched.
DispatchedAs(it, call_id) ==
    \E f \in 1..Len(futures) : futures[f].item = it /\ futures[f].call.call_id = call_id

\* C36: in the shared history every tool output recorded by a future lies
\* behind the tool-call item of that future, however the sibling futures start,
\* complete and are recorded.
C36_CallPrecedesOutput ==
    /\ \A f \in RecordedFutures :
           \E i \in PositionsOf(futures[f].item) :
               \E j \in PositionsOf(ToolOutputOf(futures[f].call)) : i < j
    /\ \A j \in 1..Len(history) :
           IsFutureOutput(history[j]) =>
               \E i \in 1..(j - 1) :
                   IsToolCallItem(history[i]) /\ DispatchedAs(history[i], history[j].call_id)

\* Two sibling calls whose outputs were recorded in the opposite order.
C36_Witness ==
    /\ Len(futures) = 2 /\ RecordedFutures = {1, 2}
    /\ Len(history) = 4
    /\ history[1] = futures[1].item /\ history[2] = futures[2].item
    /\ futures[1].call.call_id # futures[2].call.call_id
    /\ history[3] = ToolOutputOf(futures[2].call)
    /\ history[4] = ToolOutputOf(futures[1].call)

\* ------------------------------------------------------------------ C37

IsFatal(c) == c.tag = "err" /\ c.err = "Fatal"

\* This step belongs to the handling of an item classified as Fatal.
FatalStep == classified' # None /\ IsFatal(classified'[1]) /\ rpc' \in {"fatal", "aborted"}

FatalLeavesSession ==
    /\ FatalStep => UNCHANGED <<history, lifecycle, futures, session_reasoning>>
    /\ Returns =>
           /\ IsFatalReturn(ReturnedNow) <=> IsFatal(classified[1])
           /\ IsFatalReturn(ReturnedNow) => ReturnedNow.fatal = classified[1].message

BuildIdle ==
    /\ input = <<>> /\ reasoning_content = None /\ bpc = "idle"
    /\ loop = <<>> /\ messages = <<>> /\ outcome = [status |-> "none"]
    /\ conversation_id = None /\ session_source = None /\ headers = None
OrchIdle ==
    /\ requirement = Skip /\ approval_policy = "Never"
    /\ tool = [escalate_on_failure |-> FALSE, sandbox_override |-> "NoOverride"]
    /\ turn_ctx = [platform_sandbox |-> "None", codex_linux_sandbox_exe |-> None]
    /\ already_approved = FALSE /\ opc = "idle" /\ events = <<>> /\ result = None
ReducerIdle ==
    /\ stream = <<>> /\ history = <<>> /\ rpc = "off" /\ current = None
    /\ classified = None
    /\ previously_active_item = FALSE /\ futures = <<>> /\ lifecycle = <<>>
    /\ returned = <<>> /\ session_reasoning = None /\ cancelled = FALSE

DispatchIdle ==
    /\ dispatch_pc = "idle" /\ dispatch_call = None
    /\ handler_result = None /\ dispatch_result = None

InitBuild == BuildInit /\ OrchIdle /\ ReducerIdle /\ DispatchIdle
InitOrch == OrchInit /\ BuildIdle /\ ReducerIdle /\ DispatchIdle
InitReducer == ReducerInit /\ BuildIdle /\ OrchIdle /\ DispatchIdle
InitDispatch == DispatchInit /\ BuildIdle /\ OrchIdle /\ ReducerIdle

SpecBuild == InitBuild /\ [][BuildNext]_vars
SpecOrch == InitOrch /\ [][OrchNext]_vars
SpecReducer == InitReducer /\ [][ReducerNext]_vars
SpecHandle == InitReducer /\ [][HandleNext]_vars
SpecDispatch == InitDispatch /\ [][DispatchNext]_vars
SpecTurn == InitReducer /\ [][TurnNext]_vars

====
